---- MODULE Spec2Model ----
(***************************************************************************)
(* The poker hand engine of SiliconCasino: backend/game_engine/poker       *)
(* (deck.py, table.py, betting.py, engine.py).  One PokerEngine instance,  *)
(* its TableState, the HandState of the hand last started and the          *)
(* BettingState of that hand.  Every engine operation is one action; the   *)
(* operators below follow the Python statement by statement, so that an    *)
(* exception raised half way leaves the fields already assigned.           *)
(***************************************************************************)
EXTENDS Integers, Sequences, FiniteSets, TLC

VARIABLES
    config,                 \* TableConfig given to PokerEngine.__init__
    rake_config,            \* RakeConfig given to PokerEngine.__init__
    table,                  \* PokerEngine.table : TableState
    hand,                   \* the HandState object last created by start_hand
    current_hand,           \* TRUE iff PokerEngine._current_hand is not None
    event_sequence,         \* PokerEngine._event_sequence
    total_rake_collected,   \* PokerEngine._total_rake_collected
    result,                 \* outcome of the last operation: return value or exception
    bought_in,              \* chips bought into the table so far, minus chips returned
    table_ops,              \* seat_player/remove_player/add_chips calls made so far
    deck,                   \* a Deck object used on its own: _cards and _dealt
    returned,               \* the cards that Deck has returned since its last reset
    text,                   \* a str given to Card.from_string or made by Card.__str__
    card,                   \* a Card object used on its own, or NoCard
    handlers,               \* the request handlers of the API: request and position
    running,                \* the handler the event loop is running, or None
    requests                \* requests received so far

vars == <<config, rake_config, table, hand, current_hand, event_sequence,
          total_rake_collected, result, bought_in, table_ops, deck, returned,
          text, card, handlers, running, requests>>

(***************************************************************************)
(* Bounds of the model.                                                    *)
(***************************************************************************)
NumAgents == 4        \* agents that may call the engine
MaxHands == 2         \* hands explored on the two-seat table (one fewer on three seats)
MaxTableOps == 4      \* seat_player/remove_player/add_chips calls explored in one run
                      \* on the two-seat table (one fewer on three seats)
NumShuffles == 1      \* outcomes of random.shuffle explored per hand
NumScores == 2        \* distinct scores the hand-ranking library may return
MaxAddChips == 3      \* the amount given to add_chips

None == 0
Agents == 1..NumAgents

Min(a, b) == IF a < b THEN a ELSE b

\* Python's sorted() on a set of integers: the ascending sequence.
RECURSIVE sorted(_)
sorted(S) ==
    IF S = {} THEN <<>>
    ELSE LET m == CHOOSE x \in S : \A y \in S : x <= y
         IN  <<m>> \o sorted(S \ {m})

\* 0-based index of the first occurrence of x in sequence s, or -1.
IndexOf(s, x) ==
    IF \E i \in 1..Len(s) : s[i] = x
    THEN (CHOOSE i \in 1..Len(s) : s[i] = x /\ \A j \in 1..(i - 1) : s[j] # x) - 1
    ELSE -1

\* s[i] with Python's 0-based index.
At(s, i) == s[i + 1]

RECURSIVE SumOver(_, _)
SumOver(f, S) ==
    IF S = {} THEN 0
    ELSE LET x == CHOOSE y \in S : TRUE IN f[x] + SumOver(f, S \ {x})

(***************************************************************************)
(* deck.py                                                                 *)
(***************************************************************************)
\* Card c in 0..51 has suit c \div 13 and rank (c % 13) + 2.
Suit(c) == c \div 13
Rank(c) == (c % 13) + 2

\* RANK_CHARS and SUIT_CHARS, a str being the sequence of its characters.
RANK_CHARS == <<"2", "3", "4", "5", "6", "7", "8", "9", "T", "J", "Q", "K", "A">>
SUIT_CHARS == <<"c", "d", "h", "s">>

\* The lower-case and upper-case letters among the characters explored, and
\* str.upper() / str.lower() of one character: a letter changes case, any
\* other character stays.
Letters ==
    <<<<"t", "T">>, <<"j", "J">>, <<"q", "Q">>, <<"k", "K">>, <<"a", "A">>,
      <<"c", "C">>, <<"d", "D">>, <<"h", "H">>, <<"s", "S">>, <<"x", "X">>>>
upper(ch) ==
    IF \E i \in DOMAIN Letters : Letters[i][1] = ch
    THEN Letters[CHOOSE i \in DOMAIN Letters : Letters[i][1] = ch][2]
    ELSE ch
lower(ch) ==
    IF \E i \in DOMAIN Letters : Letters[i][2] = ch
    THEN Letters[CHOOSE i \in DOMAIN Letters : Letters[i][2] = ch][1]
    ELSE ch

\* No Card object.
NoCard == -1

\* Card.__str__: RANK_NAMES[rank] then SUIT_NAMES[suit].
str(c) == <<RANK_CHARS[Rank(c) - 1], SUIT_CHARS[Suit(c) + 1]>>

\* Card.from_string(s): [ok, card]; ok is FALSE where the code raises
\* ValueError.
from_string(s) ==
    IF Len(s) # 2 THEN [ok |-> FALSE, card |-> NoCard]
    ELSE LET rank_char == upper(s[1])
             suit_char == lower(s[2])
             rank_idx == IndexOf(RANK_CHARS, rank_char)
             suit_idx == IndexOf(SUIT_CHARS, suit_char)
         IN  IF rank_idx = -1 THEN [ok |-> FALSE, card |-> NoCard]
             ELSE IF suit_idx = -1 THEN [ok |-> FALSE, card |-> NoCard]
             ELSE [ok |-> TRUE,
                   card |-> CHOOSE c \in 0..51 : Rank(c) = rank_idx + 2 /\ Suit(c) = suit_idx]

\* Deck.reset before the shuffle: suits outermost, ranks innermost.
FullDeck == [i \in 1..52 |-> i - 1]

\* random.shuffle: some permutation of the 52 cards.  The model explores
\* NumShuffles of them (the n-th steps through the deck by 2n-1 places).
Shuffle(n) == [i \in 1..52 |-> FullDeck[((i * (2 * n - 1)) % 52) + 1]]
Shuffles == {Shuffle(n) : n \in 1..NumShuffles}

\* Deck.__init__ / reset with the shuffle outcome given.
NewDeck(shuffled) == [cards |-> shuffled, dealt |-> {}]

\* The number of elements in the Python slice cards[:count]: a negative count
\* is taken from the end of the list.
SliceLen(cards, count) ==
    IF count >= 0 THEN Min(count, Len(cards))
    ELSE IF Len(cards) + count > 0 THEN Len(cards) + count ELSE 0

\* A Deck.deal that hands the cards out and keeps no record of them in _dealt.
deal_unrecorded(d, count) ==
    IF count > Len(d.cards)
    THEN [ok |-> FALSE, deck |-> d, out |-> <<>>]
    ELSE LET k == SliceLen(d.cards, count)
         IN  [ok |-> TRUE,
              deck |-> [cards |-> SubSeq(d.cards, k + 1, Len(d.cards)),
                        dealt |-> d.dealt],
              out |-> SubSeq(d.cards, 1, k)]

\* Deck.deal(count): [ok, deck, out].
deal(d, count) ==
    IF count > Len(d.cards)
    THEN [ok |-> FALSE, deck |-> d, out |-> <<>>]
    ELSE LET k == SliceLen(d.cards, count)
             out == SubSeq(d.cards, 1, k)
         IN  [ok |-> TRUE,
              deck |-> [cards |-> SubSeq(d.cards, k + 1, Len(d.cards)),
                        dealt |-> d.dealt \cup {out[i] : i \in 1..k}],
              out |-> out]

\* A burn that leaves the deck as it is.
burn_nothing(d) == [ok |-> TRUE, deck |-> d, out |-> <<>>]

\* Deck.burn(): deal one card and drop it.
burn(d) == deal(d, 1)

(***************************************************************************)
(* table.py                                                                *)
(***************************************************************************)
SeatNumbers == 0..(config.max_players - 1)

EmptySeat(n) ==
    [seat_number |-> n, agent_id |-> None, stack |-> 0, status |-> "empty",
     hole_cards |-> <<>>, is_sitting_out |-> FALSE]

is_occupied(seat) == seat.agent_id # None /\ seat.status # "empty"

is_ready(seat) == is_occupied(seat) /\ ~seat.is_sitting_out /\ seat.stack > 0

\* TableState.get_ready_players, as the set of seat numbers (dict order is
\* ascending seat number).
get_ready_players(t) == {n \in DOMAIN t.seats : is_ready(t.seats[n])}

\* TableState.get_seat_by_agent: the first seat holding the agent, or -1.
get_seat_by_agent(t, agent_id) ==
    IF \E n \in DOMAIN t.seats : t.seats[n].agent_id = agent_id
    THEN CHOOSE n \in DOMAIN t.seats :
            /\ t.seats[n].agent_id = agent_id
            /\ \A m \in DOMAIN t.seats : t.seats[m].agent_id = agent_id => n <= m
    ELSE -1

table_can_start_hand(t) == Cardinality(get_ready_players(t)) >= 2

\* TableState.advance_button: the table with the button moved.
advance_button(t) ==
    LET occupied == sorted(get_ready_players(t))
        current_idx == IndexOf(occupied, t.button_position)
        next_idx == (current_idx + 1) % Len(occupied)
    IN  IF Len(occupied) = 0 THEN t
        ELSE [t EXCEPT !.button_position = At(occupied, next_idx)]

\* TableState.get_blinds_positions: [ok, table, sb, bb]; it may move the button.
get_blinds_positions(t) ==
    LET ready == sorted(get_ready_players(t))
        found == IndexOf(ready, t.button_position)
        button_idx == IF found = -1 THEN 0 ELSE found
        t2 == IF found = -1 THEN [t EXCEPT !.button_position = At(ready, 0)] ELSE t
    IN  IF Len(ready) < 2
        THEN [ok |-> FALSE, table |-> t, sb |-> -1, bb |-> -1]
        ELSE IF Len(ready) = 2
        THEN [ok |-> TRUE, table |-> t2, sb |-> t2.button_position,
              bb |-> At(ready, (button_idx + 1) % Len(ready))]
        ELSE [ok |-> TRUE, table |-> t2,
              sb |-> At(ready, (button_idx + 1) % Len(ready)),
              bb |-> At(ready, (button_idx + 2) % Len(ready))]

\* TableState.get_first_to_act_preflop: [ok, table, seat].
get_first_to_act_preflop(t) ==
    LET ready == sorted(get_ready_players(t))
        bp == get_blinds_positions(t)
        bb_idx == IndexOf(ready, bp.bb)
    IN  IF Len(ready) < 2 THEN [ok |-> FALSE, table |-> t, seat |-> -1]
        ELSE [ok |-> TRUE, table |-> bp.table,
              seat |-> At(ready, (bb_idx + 1) % Len(ready))]

(***************************************************************************)
(* betting.py                                                              *)
(***************************************************************************)
ActionTypes == {"FOLD", "CHECK", "CALL", "BET", "RAISE", "ALL_IN"}

\* PlayerBettingState(seat, agent_id, stack) with the dataclass defaults.
PlayerBettingState(seat, agent_id, stack) ==
    [seat |-> seat, agent_id |-> agent_id, stack |-> stack, bet_this_round |-> 0,
     total_bet_this_hand |-> 0, has_acted |-> FALSE, is_folded |-> FALSE,
     is_all_in |-> FALSE]

\* PlayerBettingState.is_active
is_active(p) == ~p.is_folded /\ ~p.is_all_in

\* BettingState(round, big_blind, min_raise) with the dataclass defaults.
BettingState(round, big_blind, min_raise) ==
    [round |-> round, players |-> <<>>, current_bet |-> 0, min_raise |-> min_raise,
     pot |-> 0, action_on |-> -1, last_aggressor |-> -1, big_blind |-> big_blind]

\* BettingState.get_valid_actions(seat), as a set.
get_valid_actions(b, seat) ==
    IF seat \notin DOMAIN b.players \/ ~is_active(b.players[seat]) THEN {}
    ELSE LET player == b.players[seat]
             to_call == b.current_bet - player.bet_this_round
             min_raise_to == b.current_bet + b.min_raise
         IN  {"FOLD"}
             \cup (IF to_call = 0 THEN {"CHECK"}
                   ELSE IF player.stack >= to_call THEN {"CALL"} ELSE {})
             \cup (IF player.stack > to_call
                   THEN IF b.current_bet = 0
                        THEN IF player.stack >= b.big_blind THEN {"BET"} ELSE {}
                        ELSE IF player.stack + player.bet_this_round >= min_raise_to
                             THEN {"RAISE"} ELSE {}
                   ELSE {})
             \cup (IF player.stack > 0 THEN {"ALL_IN"} ELSE {})

\* BettingState.get_min_raise_to
get_min_raise_to(b) == b.current_bet + b.min_raise

\* BettingState._is_round_complete
is_round_complete(b) ==
    LET active_players == {s \in DOMAIN b.players : is_active(b.players[s])}
    IN  IF Cardinality(active_players) <= 1 THEN TRUE
        ELSE \A s \in active_players :
                /\ b.players[s].has_acted
                /\ ~(b.players[s].bet_this_round < b.current_bet)

\* "for p in self.players.values(): if p.seat != seat and p.is_active:
\*  p.has_acted = False" (the flags are read before the actor's own change).
reopen_action(b, seat) ==
    [b EXCEPT !.players =
        [s \in DOMAIN b.players |->
            IF b.players[s].seat # seat /\ is_active(b.players[s])
            THEN [b.players[s] EXCEPT !.has_acted = FALSE]
            ELSE b.players[s]]]

\* The FOLD branch of BettingState.process_action.
do_fold(b, seat) ==
    [b EXCEPT !.players[seat].is_folded = TRUE, !.players[seat].has_acted = TRUE]

\* The CHECK branch: [b, status].
do_check(b, seat) ==
    IF b.current_bet > b.players[seat].bet_this_round
    THEN [b |-> b, status |-> "ValueError"]
    ELSE [b |-> [b EXCEPT !.players[seat].has_acted = TRUE], status |-> "ok"]

\* A CALL branch that puts in the whole current bet, whatever the player has
\* already bet in the round.
do_call_whole_bet(b, seat) ==
    LET player == b.players[seat]
        call_amount == Min(b.current_bet, player.stack)
        stack == player.stack - call_amount
    IN  [b EXCEPT !.players[seat] =
                     [player EXCEPT !.stack = stack,
                                    !.bet_this_round = player.bet_this_round + call_amount,
                                    !.total_bet_this_hand =
                                        player.total_bet_this_hand + call_amount,
                                    !.has_acted = TRUE,
                                    !.is_all_in = (stack = 0) \/ player.is_all_in],
                  !.pot = b.pot + call_amount]

\* The CALL branch.
do_call(b, seat) ==
    LET player == b.players[seat]
        call_amount == Min(b.current_bet - player.bet_this_round, player.stack)
        stack == player.stack - call_amount
    IN  [b EXCEPT !.players[seat] =
                     [player EXCEPT !.stack = stack,
                                    !.bet_this_round = player.bet_this_round + call_amount,
                                    !.total_bet_this_hand =
                                        player.total_bet_this_hand + call_amount,
                                    !.has_acted = TRUE,
                                    !.is_all_in = (stack = 0) \/ player.is_all_in],
                  !.pot = b.pot + call_amount]

\* A BET / RAISE branch that raises min_raise before it checks the stack.
do_bet_raise_min_raise_first(b, seat, amount) ==
    LET player == b.players[seat]
        raise_amount == amount - player.bet_this_round
        actual_raise == amount - b.current_bet
        b1 == IF actual_raise > b.min_raise THEN [b EXCEPT !.min_raise = actual_raise]
              ELSE b
    IN  IF amount < get_min_raise_to(b) /\ amount < player.stack + player.bet_this_round
        THEN [b |-> b, status |-> "ValueError"]
        ELSE IF raise_amount > player.stack
        THEN [b |-> b1, status |-> "ValueError"]
        ELSE [b |-> [b1 EXCEPT !.players[seat].has_acted = TRUE], status |-> "ok"]

\* A BET / RAISE branch that moves the whole amount from the stack, on top of
\* what the player has already bet in the round.
do_bet_raise_on_top(b, seat, amount) ==
    LET player == b.players[seat]
        raise_amount == amount
        actual_raise == amount - b.current_bet
        b1 == IF actual_raise > b.min_raise THEN [b EXCEPT !.min_raise = actual_raise]
              ELSE b
        stack == player.stack - raise_amount
        b2 == [b1 EXCEPT !.players[seat] =
                            [player EXCEPT !.stack = stack,
                                           !.bet_this_round = amount,
                                           !.total_bet_this_hand =
                                               player.total_bet_this_hand + raise_amount,
                                           !.has_acted = TRUE],
                         !.pot = b1.pot + raise_amount,
                         !.current_bet = amount,
                         !.last_aggressor = seat]
        b3 == reopen_action(b2, seat)
        b4 == IF stack = 0 THEN [b3 EXCEPT !.players[seat].is_all_in = TRUE] ELSE b3
    IN  IF amount < get_min_raise_to(b) /\ amount < player.stack + player.bet_this_round
        THEN [b |-> b, status |-> "ValueError"]
        ELSE IF raise_amount > player.stack
        THEN [b |-> b, status |-> "ValueError"]
        ELSE [b |-> b4, status |-> "ok"]

\* The BET / RAISE branch: [b, status].  Both checks come before any assignment.
do_bet_raise(b, seat, amount) ==
    LET player == b.players[seat]
        raise_amount == amount - player.bet_this_round
        actual_raise == amount - b.current_bet
        b1 == IF actual_raise > b.min_raise THEN [b EXCEPT !.min_raise = actual_raise]
              ELSE b
        stack == player.stack - raise_amount
        b2 == [b1 EXCEPT !.players[seat] =
                            [player EXCEPT !.stack = stack,
                                           !.bet_this_round = amount,
                                           !.total_bet_this_hand =
                                               player.total_bet_this_hand + raise_amount,
                                           !.has_acted = TRUE],
                         !.pot = b1.pot + raise_amount,
                         !.current_bet = amount,
                         !.last_aggressor = seat]
        b3 == reopen_action(b2, seat)
        b4 == IF stack = 0 THEN [b3 EXCEPT !.players[seat].is_all_in = TRUE] ELSE b3
    IN  IF amount < get_min_raise_to(b) /\ amount < player.stack + player.bet_this_round
        THEN [b |-> b, status |-> "ValueError"]
        ELSE IF raise_amount > player.stack
        THEN [b |-> b, status |-> "ValueError"]
        ELSE [b |-> b4, status |-> "ok"]

\* The ALL_IN branch.
do_all_in(b, seat) ==
    LET player == b.players[seat]
        all_in_amount == player.stack
        total_bet == player.bet_this_round + all_in_amount
        actual_raise == total_bet - b.current_bet
        b1 == IF total_bet > b.current_bet
              THEN LET r == IF actual_raise >= b.min_raise
                            THEN reopen_action([b EXCEPT !.min_raise = actual_raise], seat)
                            ELSE b
                   IN  [r EXCEPT !.current_bet = total_bet, !.last_aggressor = seat]
              ELSE b
    IN  [b1 EXCEPT !.players[seat] =
                      [b1.players[seat] EXCEPT
                          !.bet_this_round = total_bet,
                          !.total_bet_this_hand = player.total_bet_this_hand + all_in_amount,
                          !.stack = 0,
                          !.is_all_in = TRUE,
                          !.has_acted = TRUE],
                   !.pot = b1.pot + all_in_amount]

\* BettingState.process_action(action): [b, status, ret]; ret is the value of
\* _is_round_complete() when no exception is raised.
betting_process_action(b, seat, action_type, amount) ==
    IF seat \notin DOMAIN b.players
    THEN [b |-> b, status |-> "ValueError", ret |-> FALSE]
    ELSE LET r == CASE action_type = "FOLD" -> [b |-> do_fold(b, seat), status |-> "ok"]
                    [] action_type = "CHECK" -> do_check(b, seat)
                    [] action_type = "CALL" -> [b |-> do_call(b, seat), status |-> "ok"]
                    [] action_type \in {"BET", "RAISE"} -> do_bet_raise(b, seat, amount)
                    [] action_type = "ALL_IN" -> [b |-> do_all_in(b, seat), status |-> "ok"]
                    [] OTHER -> [b |-> b, status |-> "ok"]
         IN  [b |-> r.b, status |-> r.status,
              ret |-> IF r.status = "ok" THEN is_round_complete(r.b) ELSE FALSE]

\* A choice of the next seat to act that takes the lowest seat still to act,
\* wherever the action was.
get_next_to_act_lowest(b, button_seat, num_seats) ==
    LET not_acted == {s \in DOMAIN b.players :
                        is_active(b.players[s]) /\ ~b.players[s].has_acted}
        owing == {s \in DOMAIN b.players :
                    is_active(b.players[s]) /\ b.players[s].bet_this_round < b.current_bet}
        active_seats == IF not_acted # {} THEN not_acted ELSE owing
    IN  IF active_seats = {} THEN -1 ELSE At(sorted(active_seats), 0)

\* BettingState.get_next_to_act(button_seat, num_seats): a seat, or -1 for None.
get_next_to_act(b, button_seat, num_seats) ==
    LET not_acted == {s \in DOMAIN b.players :
                        is_active(b.players[s]) /\ ~b.players[s].has_acted}
        owing == {s \in DOMAIN b.players :
                    is_active(b.players[s]) /\ b.players[s].bet_this_round < b.current_bet}
        active_seats == IF not_acted # {} THEN not_acted ELSE owing
        after == {s \in active_seats : s >= b.action_on + 1 /\ s < num_seats}
        before == {s \in active_seats : s >= 0 /\ s < b.action_on + 1}
    IN  IF active_seats = {} THEN -1
        ELSE IF after # {} THEN At(sorted(after), 0)
        ELSE IF before # {} THEN At(sorted(before), 0)
        ELSE At(sorted(active_seats), 0)

\* BettingState.start_new_round(new_round, first_to_act)
start_new_round(b, new_round, first_to_act) ==
    [b EXCEPT !.round = new_round,
              !.current_bet = 0,
              !.min_raise = b.big_blind,
              !.action_on = first_to_act,
              !.last_aggressor = -1,
              !.players = [s \in DOMAIN b.players |->
                              [b.players[s] EXCEPT !.bet_this_round = 0,
                                                   !.has_acted = FALSE]]]

\* BettingState.count_active_players
count_active_players(b) == Cardinality({s \in DOMAIN b.players : ~b.players[s].is_folded})

\* BettingState.count_players_with_action
count_players_with_action(b) ==
    Cardinality({s \in DOMAIN b.players : is_active(b.players[s])})

(***************************************************************************)
(* engine.py                                                               *)
(***************************************************************************)
\* What an operation gives back: the engine after it, "ok" or the exception
\* raised, the boolean returned ("None" when there is none) and the integer
\* returned (0 when there is none).
Outcome(e, status, ret, value) == [e |-> e, status |-> status, ret |-> ret, value |-> value]

\* The hand field before the first start_hand (no HandState exists yet).
NoHand ==
    [hand_number |-> 0, phase |-> "WAITING", deck |-> NewDeck(<<>>),
     community_cards |-> <<>>, pot |-> 0, betting |-> BettingState("preflop", 0, 0),
     button_seat |-> 0, events |-> <<>>, hole_cards |-> <<>>, rake_collected |-> 0]

\* The engine's mutable state as one value, for the operators below.  Once
\* _current_hand is None the engine holds no HandState: the object of the hand
\* that just ended stays visible (to the caller that holds it) until the next
\* operation, which starts from an engine without it.
Engine ==
    [table |-> table, hand |-> IF current_hand THEN hand ELSE NoHand,
     current_hand |-> current_hand,
     event_sequence |-> event_sequence, total_rake_collected |-> total_rake_collected]

\* A rake that is charged on pots above the threshold only.
calculate_rake_above_threshold(rc, pot) ==
    IF pot <= rc.threshold THEN 0
    ELSE IF (pot * rc.percentage) \div 100 < rc.cap
    THEN (pot * rc.percentage) \div 100 ELSE rc.cap

\* PokerEngine._calculate_rake; percentage is held in hundredths, and
\* int(pot * percentage) is the floor for the non-negative pots that get here.
calculate_rake_with(rc, pot) ==
    IF pot < rc.threshold THEN 0
    ELSE Min((pot * rc.percentage) \div 100, rc.cap)

\* _calculate_rake on the engine's own RakeConfig.
calculate_rake(pot) == calculate_rake_with(rake_config, pot)

\* An _add_event that numbers the entry with the counter as it stands and
\* never advances it.
add_event_same_number(e, event_type, agent_id, info, data) ==
    IF ~e.current_hand THEN e
    ELSE [e EXCEPT !.hand.events = Append(e.hand.events,
                                          [sequence |-> e.event_sequence + 1,
                                           type |-> event_type,
                                           agent_id |-> agent_id,
                                           info |-> info,
                                           data |-> data])]

\* PokerEngine._add_event.  Of the payload the model keeps a tag (info: the
\* phase, the action type or the result) and, for a showdown, the scores, the
\* winners with their amounts and the rake (data).
add_event(e, event_type, agent_id, info, data) ==
    IF ~e.current_hand THEN e
    ELSE [e EXCEPT !.event_sequence = e.event_sequence + 1,
                   !.hand.events = Append(e.hand.events,
                                          [sequence |-> e.event_sequence + 1,
                                           type |-> event_type,
                                           agent_id |-> agent_id,
                                           info |-> info,
                                           data |-> data])]

\* PokerEngine.seat_player
seat_player(e, agent_id, seat_number, buy_in) ==
    IF seat_number < 0 \/ seat_number >= config.max_players
    THEN Outcome(e, "ValueError", "None", 0)
    ELSE IF is_occupied(e.table.seats[seat_number])
    THEN Outcome(e, "ValueError", "None", 0)
    ELSE IF buy_in < config.min_buy_in
    THEN Outcome(e, "ValueError", "None", 0)
    ELSE IF buy_in > config.max_buy_in
    THEN Outcome(e, "ValueError", "None", 0)
    ELSE Outcome([e EXCEPT !.table.seats[seat_number] =
                               [e.table.seats[seat_number] EXCEPT
                                   !.agent_id = agent_id,
                                   !.stack = buy_in,
                                   !.status = "seated",
                                   !.hole_cards = <<>>]],
                 "ok", "True", 0)

\* PokerEngine.remove_player
remove_player(e, agent_id) ==
    LET n == get_seat_by_agent(e.table, agent_id)
    IN  IF n = -1 THEN Outcome(e, "ValueError", "None", 0)
        ELSE Outcome([e EXCEPT !.table.seats[n] =
                                  [e.table.seats[n] EXCEPT
                                      !.agent_id = None,
                                      !.stack = 0,
                                      !.status = "empty",
                                      !.hole_cards = <<>>]],
                     "ok", "None", e.table.seats[n].stack)

\* PokerEngine.add_chips
add_chips(e, agent_id, amount) ==
    LET n == get_seat_by_agent(e.table, agent_id)
        new_stack == e.table.seats[n].stack + amount
    IN  IF n = -1 THEN Outcome(e, "ValueError", "None", 0)
        ELSE IF new_stack > config.max_buy_in THEN Outcome(e, "ValueError", "None", 0)
        ELSE Outcome([e EXCEPT !.table.seats[n].stack = new_stack], "ok", "None", new_stack)

\* PokerEngine.can_start_hand
can_start_hand(e) == ~e.current_hand /\ table_can_start_hand(e.table)

\* "for seat in ready_players: hole_cards = hand.deck.deal(2) ...": the deck
\* after dealing to the seats of the sequence, and the cards each got.
RECURSIVE deal_hole_cards(_, _, _)
deal_hole_cards(dk, ready, hole) ==
    IF ready = <<>> THEN [deck |-> dk, hole |-> hole]
    ELSE LET d == deal(dk, 2)
         IN  deal_hole_cards(d.deck, Tail(ready),
                             [s \in DOMAIN hole \cup {Head(ready)} |->
                                 IF s = Head(ready) THEN d.out ELSE hole[s]])

\* PokerEngine.start_hand, with the outcome of the deck's shuffle given.
start_hand(e, shuffled) ==
    LET ready_players == get_ready_players(e.table)
        t1 == [advance_button(e.table) EXCEPT !.hand_number = e.table.hand_number + 1]
        dealt == deal_hole_cards(NewDeck(shuffled), sorted(ready_players), <<>>)
        t2 == [t1 EXCEPT !.seats = [n \in DOMAIN t1.seats |->
                                       IF n \in ready_players
                                       THEN [t1.seats[n] EXCEPT !.hole_cards = dealt.hole[n]]
                                       ELSE t1.seats[n]]]
        bp == get_blinds_positions(t2)
        t3 == bp.table
        sb_amount == Min(config.small_blind, t3.seats[bp.sb].stack)
        bb_amount == Min(config.big_blind, t3.seats[bp.bb].stack)
        players0 == [n \in ready_players |->
                        PlayerBettingState(n, t3.seats[n].agent_id, t3.seats[n].stack)]
        players1 == [players0 EXCEPT ![bp.sb] =
                        [@ EXCEPT !.stack = @ - sb_amount,
                                  !.bet_this_round = sb_amount,
                                  !.total_bet_this_hand = sb_amount]]
        t4 == [t3 EXCEPT !.seats[bp.sb].stack = @ - sb_amount]
        players2 == [players1 EXCEPT ![bp.bb] =
                        [@ EXCEPT !.stack = @ - bb_amount,
                                  !.bet_this_round = bb_amount,
                                  !.total_bet_this_hand = bb_amount]]
        t5 == [t4 EXCEPT !.seats[bp.bb].stack = @ - bb_amount]
        first == get_first_to_act_preflop(t5)
        betting == [BettingState("preflop", config.big_blind, config.big_blind) EXCEPT
                       !.players = players2,
                       !.pot = sb_amount + bb_amount,
                       !.current_bet = bb_amount,
                       !.action_on = first.seat]
        h == [hand_number |-> t1.hand_number, phase |-> "PREFLOP", deck |-> dealt.deck,
              community_cards |-> <<>>, pot |-> sb_amount + bb_amount, betting |-> betting,
              button_seat |-> t1.button_position, events |-> <<>>,
              hole_cards |-> dealt.hole, rake_collected |-> 0]
        e1 == [e EXCEPT !.table = [first.table EXCEPT !.status = "playing"],
                        !.hand = h,
                        !.current_hand = TRUE,
                        !.event_sequence = 0]
        \* get_first_to_act_preflop raises when the blinds have left fewer than
        \* two seats with chips: the button, the hand number, the hole cards and
        \* the blinds taken from the seats stay as assigned, and no hand is held
        failed == [e EXCEPT !.table = t5, !.event_sequence = 0]
    IN  IF e.current_hand THEN Outcome(e, "ValueError", "None", 0)
        ELSE IF Cardinality(ready_players) < 2 THEN Outcome(e, "ValueError", "None", 0)
        ELSE IF ~first.ok THEN Outcome(failed, "ValueError", "None", 0)
        ELSE Outcome(add_event(e1, "hand_start", None, "PREFLOP", <<>>), "ok", "None", 0)

\* PokerEngine.get_valid_actions(agent_id), as a set.
engine_get_valid_actions(e, agent_id) ==
    LET n == get_seat_by_agent(e.table, agent_id)
    IN  IF ~e.current_hand THEN {}
        ELSE IF n = -1 THEN {}
        ELSE IF e.hand.betting.action_on # n THEN {}
        ELSE get_valid_actions(e.hand.betting, n)

\* A completion that marks the hand COMPLETE and keeps it as the current hand.
complete_hand_keeps_hand(e) ==
    [e EXCEPT !.hand.phase = "COMPLETE", !.table.status = "waiting"]

\* PokerEngine._complete_hand: the hand_end event is added after
\* _current_hand is cleared, so _add_event returns without logging it.
complete_hand(e) ==
    LET e1 == IF e.current_hand THEN [e EXCEPT !.hand.phase = "COMPLETE"] ELSE e
        e2 == [e1 EXCEPT !.table.seats = [n \in DOMAIN e1.table.seats |->
                                             [e1.table.seats[n] EXCEPT !.hole_cards = <<>>]],
                         !.current_hand = FALSE,
                         !.table.status = "waiting"]
    IN  add_event(e2, "hand_end", None, "", <<>>)

\* An award of the whole pot, the rake not taken off it.
handle_everyone_folded_whole_pot(e) ==
    LET b == e.hand.betting
        winner_seat == CHOOSE s \in DOMAIN b.players : ~b.players[s].is_folded
        e1 == [e EXCEPT !.hand.rake_collected = calculate_rake(b.pot),
                        !.total_rake_collected = @ + calculate_rake(b.pot),
                        !.table.seats[winner_seat].stack = @ + b.pot]
    IN  Outcome(complete_hand(add_event(e1, "hand_complete", None, "fold_win", <<>>)),
                "ok", "False", 0)

\* PokerEngine._handle_everyone_folded
handle_everyone_folded(e) ==
    LET b == e.hand.betting
        active_players == {s \in DOMAIN b.players : ~b.players[s].is_folded}
        winner_seat == CHOOSE s \in active_players : TRUE
        total_pot == b.pot
        rake == calculate_rake(total_pot)
        pot_won == total_pot - rake
        e1 == [e EXCEPT !.hand.rake_collected = rake,
                        !.total_rake_collected = @ + rake,
                        !.table.seats[winner_seat].stack = @ + pot_won]
        e2 == add_event(e1, "hand_complete", None, "fold_win", <<>>)
    IN  IF ~e.current_hand THEN Outcome(e, "ok", "False", 0)
        ELSE IF Cardinality(active_players) # 1 THEN Outcome(e, "ok", "True", 0)
        ELSE Outcome(complete_hand(e2), "ok", "False", 0)

\* "for i, (seat, agent_id, eval_) in enumerate(winners): ... stack += amount"
RECURSIVE pay_winners(_, _, _, _, _)
pay_winners(seats, winners, i, share, remainder) ==
    IF i > Len(winners) THEN seats
    ELSE pay_winners([seats EXCEPT ![winners[i]].stack =
                         @ + share + (IF i - 1 < remainder THEN 1 ELSE 0)],
                     winners, i + 1, share, remainder)

\* Winners taken from the wrong end of the ranking.
showdown_winners_highest(evaluated, scores) ==
    LET worst_score == CHOOSE x \in {scores[s] : s \in evaluated} :
                          \A s \in evaluated : x >= scores[s]
    IN  sorted({s \in evaluated : scores[s] = worst_score})

\* The seats list "winners" of _handle_showdown: the evaluated seats with the
\* best (lowest) score, in the order the stable sort leaves them.
showdown_winners(evaluated, scores) ==
    LET best_score == CHOOSE x \in {scores[s] : s \in evaluated} :
                         \A s \in evaluated : x <= scores[s]
    IN  sorted({s \in evaluated : scores[s] = best_score})

\* PokerEngine._handle_showdown; scores[s] is what evaluator.evaluate returns
\* for seat s (the ranking itself is done by the treys library).
handle_showdown(e, scores) ==
    LET e1 == [e EXCEPT !.hand.phase = "SHOWDOWN"]
        b == e1.hand.betting
        active_players == {s \in DOMAIN b.players : ~b.players[s].is_folded}
        evaluated == {s \in active_players :
                        /\ s \in DOMAIN e1.hand.hole_cards
                        /\ Len(e1.hand.hole_cards[s]) = 2
                        /\ Len(e1.hand.community_cards) >= 3}
        winners == showdown_winners(evaluated, scores)
        total_pot == b.pot
        rake == calculate_rake(total_pot)
        pot == total_pot - rake
        share == pot \div Len(winners)
        remainder == pot % Len(winners)
        e2 == [e1 EXCEPT !.hand.rake_collected = rake,
                         !.total_rake_collected = @ + rake,
                         !.table.seats = pay_winners(@, winners, 1, share, remainder)]
        e3 == add_event(e2, "showdown", None, "",
                        [hands |-> [s \in evaluated |-> scores[s]],
                         winners |-> [i \in 1..Len(winners) |->
                                        [seat |-> winners[i],
                                         amount |-> share + (IF i - 1 < remainder
                                                             THEN 1 ELSE 0)]],
                         rake |-> rake])
    IN  IF ~e.current_hand THEN Outcome(e, "ok", "False", 0)
        ELSE IF Cardinality(active_players) = 1 THEN handle_everyone_folded(e1)
        ELSE IF evaluated = {} THEN Outcome(e1, "IndexError", "None", 0)
        ELSE Outcome(complete_hand(e3), "ok", "False", 0)

\* The loop of PokerEngine._deal_remaining_and_showdown: burn and deal by phase
\* until five community cards lie on the board.
RECURSIVE deal_remaining(_)
deal_remaining(h) ==
    IF ~(Len(h.community_cards) < 5) THEN h
    ELSE IF h.phase \in {"PREFLOP", "FLOP", "TURN"}
    THEN LET n == IF h.phase = "PREFLOP" THEN 3 ELSE 1
             d == deal(burn(h.deck).deck, n)
             next == CASE h.phase = "PREFLOP" -> "FLOP"
                       [] h.phase = "FLOP" -> "TURN"
                       [] h.phase = "TURN" -> "RIVER"
         IN  deal_remaining([h EXCEPT !.deck = d.deck,
                                      !.community_cards = @ \o d.out,
                                      !.phase = next])
    ELSE h

\* A runout that logs the board under the phase it ends in, not as RUNOUT.
deal_remaining_and_showdown_untagged(e, scores) ==
    IF ~e.current_hand THEN Outcome(e, "ok", "False", 0)
    ELSE handle_showdown(
            add_event([e EXCEPT !.hand = deal_remaining(e.hand)],
                      "community_cards", None, "RIVER", <<>>),
            scores)

\* PokerEngine._deal_remaining_and_showdown
deal_remaining_and_showdown(e, scores) ==
    IF ~e.current_hand THEN Outcome(e, "ok", "False", 0)
    ELSE handle_showdown(
            add_event([e EXCEPT !.hand = deal_remaining(e.hand)],
                      "community_cards", None, "RUNOUT", <<>>),
            scores)

\* A choice of the first seat to act that hands the new round to the button
\* when the button is still active.
first_to_act_next_round_button(e) ==
    LET ready_set == get_ready_players(e.table)
        ready_seats == sorted(ready_set)
        players == e.hand.betting.players
        active_set == {s \in ready_set : ~players[s].is_folded}
        active_seats == sorted(active_set)
        button_idx == IndexOf(active_seats, e.table.button_position)
    IN  IF \E s \in ready_set : s \notin DOMAIN players
        THEN [status |-> "KeyError", seat |-> -1]
        ELSE IF button_idx >= 0
        THEN [status |-> "ok",
              seat |-> At(active_seats, button_idx)]
        ELSE IF active_set # {} THEN [status |-> "ok", seat |-> At(active_seats, 0)]
        ELSE IF ready_set # {} THEN [status |-> "ok", seat |-> At(ready_seats, 0)]
        ELSE [status |-> "IndexError", seat |-> -1]

\* Lines 358-372 of _advance_to_next_phase: the seat that opens the new
\* round: [status, seat].
first_to_act_next_round(e) ==
    LET ready_set == get_ready_players(e.table)
        ready_seats == sorted(ready_set)
        players == e.hand.betting.players
        active_set == {s \in ready_set : ~players[s].is_folded}
        active_seats == sorted(active_set)
        button_idx == IndexOf(active_seats, e.table.button_position)
    IN  IF \E s \in ready_set : s \notin DOMAIN players
        THEN [status |-> "KeyError", seat |-> -1]
        ELSE IF button_idx >= 0
        THEN [status |-> "ok",
              seat |-> At(active_seats, (button_idx + 1) % Len(active_seats))]
        ELSE IF active_set # {} THEN [status |-> "ok", seat |-> At(active_seats, 0)]
        ELSE IF ready_set # {} THEN [status |-> "ok", seat |-> At(ready_seats, 0)]
        ELSE [status |-> "IndexError", seat |-> -1]

\* PokerEngine._advance_to_next_phase
advance_to_next_phase(e, scores) ==
    LET h == e.hand
        cards_to_deal == IF h.phase = "PREFLOP" THEN 3 ELSE 1
        next_phase == CASE h.phase = "PREFLOP" -> "FLOP"
                         [] h.phase = "FLOP" -> "TURN"
                         [] h.phase = "TURN" -> "RIVER"
                         [] OTHER -> "SHOWDOWN"
        d == deal(burn(h.deck).deck, cards_to_deal)
        e1 == add_event([e EXCEPT !.hand.deck = d.deck,
                                  !.hand.community_cards = @ \o d.out,
                                  !.hand.phase = next_phase],
                        "community_cards", None, next_phase, <<>>)
        first == first_to_act_next_round(e1)
        round_name == CASE next_phase = "FLOP" -> "flop"
                         [] next_phase = "TURN" -> "turn"
                         [] OTHER -> "river"
    IN  IF ~e.current_hand THEN Outcome(e, "ok", "False", 0)
        ELSE IF count_players_with_action(h.betting) <= 1
        THEN IF h.phase = "RIVER" THEN handle_showdown(e, scores)
             ELSE LET o == deal_remaining_and_showdown(e, scores)
                  IN  Outcome(o.e, o.status, IF o.status = "ok" THEN "False" ELSE "None", 0)
        ELSE IF h.phase \notin {"PREFLOP", "FLOP", "TURN", "RIVER"}
        THEN Outcome(e, "ok", "False", 0)
        ELSE IF next_phase = "SHOWDOWN" THEN handle_showdown(e, scores)
        ELSE IF first.status # "ok" THEN Outcome(e1, first.status, "None", 0)
        ELSE Outcome([e1 EXCEPT !.hand.betting =
                                   start_new_round(@, round_name, first.seat)],
                     "ok", "True", 0)

\* PokerEngine.process_action; scores is what the hand evaluator returns for
\* each seat should the action lead to a showdown.
process_action(e, agent_id, action_type, amount, scores) ==
    LET n == get_seat_by_agent(e.table, agent_id)
        betting == e.hand.betting
        valid_actions == get_valid_actions(betting, n)
        bo == betting_process_action(betting, n, action_type, amount)
        e1 == [e EXCEPT !.hand.betting = bo.b]
        e2 == [e1 EXCEPT !.table.seats[n].stack = bo.b.players[n].stack]
        e3 == add_event(e2, "player_action", agent_id, action_type, <<>>)
        next_to_act == get_next_to_act(bo.b, e3.table.button_position, config.max_players)
    IN  IF ~e.current_hand THEN Outcome(e, "ValueError", "None", 0)
        ELSE IF n = -1 THEN Outcome(e, "ValueError", "None", 0)
        ELSE IF betting.action_on # n THEN Outcome(e, "ValueError", "None", 0)
        ELSE IF action_type \notin valid_actions THEN Outcome(e, "ValueError", "None", 0)
        ELSE IF bo.status # "ok" THEN Outcome(e1, bo.status, "None", 0)
        ELSE IF count_active_players(bo.b) = 1 THEN handle_everyone_folded(e3)
        ELSE IF bo.ret THEN advance_to_next_phase(e3, scores)
        ELSE IF next_to_act # -1
        THEN Outcome([e3 EXCEPT !.hand.betting.action_on = next_to_act], "ok", "True", 0)
        ELSE Outcome(e3, "ok", "True", 0)

\* SeatState.to_public_dict
seat_to_public_dict(seat) ==
    [seat_number |-> seat.seat_number, agent_id |-> seat.agent_id,
     stack |-> seat.stack, status |-> seat.status,
     is_sitting_out |-> seat.is_sitting_out]

\* TableState.to_public_dict
table_to_public_dict(t) ==
    [small_blind |-> config.small_blind, big_blind |-> config.big_blind,
     min_buy_in |-> config.min_buy_in, max_buy_in |-> config.max_buy_in,
     max_players |-> config.max_players,
     button_position |-> t.button_position, hand_number |-> t.hand_number,
     status |-> t.status,
     seats |-> [n \in DOMAIN t.seats |-> seat_to_public_dict(t.seats[n])]]

\* HandState.to_public_dict(for_seat); for_seat is -1 for None, and the key
\* "your_cards" is there when has_your_cards is TRUE.
to_public_dict(h, for_seat) ==
    [hand_number |-> h.hand_number, phase |-> h.phase,
     community_cards |-> h.community_cards, pot |-> h.pot,
     button_seat |-> h.button_seat,
     current_bet |-> h.betting.current_bet, action_on |-> h.betting.action_on,
     min_raise_to |-> get_min_raise_to(h.betting),
     players |-> [n \in DOMAIN h.betting.players |->
                    [bet_this_round |-> h.betting.players[n].bet_this_round,
                     total_bet |-> h.betting.players[n].total_bet_this_hand,
                     is_folded |-> h.betting.players[n].is_folded,
                     is_all_in |-> h.betting.players[n].is_all_in,
                     stack |-> h.betting.players[n].stack]],
     has_your_cards |-> for_seat # -1 /\ for_seat \in DOMAIN h.hole_cards,
     your_cards |-> IF for_seat # -1 /\ for_seat \in DOMAIN h.hole_cards
                    THEN h.hole_cards[for_seat] ELSE <<>>]

\* PokerEngine.get_state(for_agent); for_agent is None or an agent.
get_state(e, for_agent) ==
    LET seat_num == IF for_agent # None THEN get_seat_by_agent(e.table, for_agent)
                    ELSE -1
    IN  [table |-> table_to_public_dict(e.table),
         has_hand |-> e.current_hand,
         hand |-> IF e.current_hand THEN to_public_dict(e.hand, seat_num)
                  ELSE to_public_dict(NoHand, -1),
         valid_actions |-> IF e.current_hand /\ for_agent # None
                           THEN engine_get_valid_actions(e, for_agent) ELSE {},
         is_your_turn |-> e.current_hand /\ for_agent # None
                          /\ e.hand.betting.action_on = seat_num]

(***************************************************************************)
(* The engine as a state machine: one action per public operation.         *)
(***************************************************************************)
\* The tables the exploration plays on: blinds 1/2, buy-ins from 1 to 4, with
\* two seats or three; rake of 50% of pots of 3 chips or more, at most 3 chips.
DuelConfig ==
    [small_blind |-> 1, big_blind |-> 2, min_buy_in |-> 1, max_buy_in |-> 4,
     max_players |-> 2]
TrioConfig == [DuelConfig EXCEPT !.max_players = 3]
SmallRake == [percentage |-> 50, cap |-> 3, threshold |-> 3]

\* The bounds as they apply to the table at hand: the full bounds heads-up,
\* one hand and one table operation fewer on the larger tables.
HandsBound == IF config.max_players = 2 THEN MaxHands ELSE MaxHands - 1
TableOpsBound == IF config.max_players = 2 THEN MaxTableOps ELSE MaxTableOps - 1

\* Inputs offered to the operations.
SeatInputs == (-1)..config.max_players
BuyIns == {config.min_buy_in - 1, config.min_buy_in, config.max_buy_in,
           config.max_buy_in + 1}
AddAmounts == {MaxAddChips}
\* BET / RAISE amounts: a grid that coarsens with the blinds and with the chips
\* bought in (every amount at blinds 1/2, the multiples of 25 at blinds 5/10
\* with 200 chips, the multiples of 100 with 1000 chips), up to one step past
\* the most a player of the hand can put in (any larger amount is refused).
AmountStep ==
    LET by_blinds == config.small_blind * config.small_blind
        by_chips == bought_in \div 10
    IN  IF by_chips > by_blinds THEN by_chips ELSE by_blinds
MaxRaiseTo ==
    LET p == hand.betting.players
    IN  IF DOMAIN p = {} THEN 0
        ELSE CHOOSE m \in {p[n].stack + p[n].bet_this_round : n \in DOMAIN p} :
                \A n \in DOMAIN p : p[n].stack + p[n].bet_this_round <= m
AmountInputs ==
    {a \in 0..(MaxRaiseTo + AmountStep) : a % AmountStep = 0}
ScoreValues == 1..NumScores
DefaultScores == [n \in SeatNumbers |-> 1]
ScoreInputs ==
    {f \in [SeatNumbers -> ScoreValues] :
        \A n \in SeatNumbers : n \notin DOMAIN hand.hole_cards => f[n] = 1}

\* TableState.__post_init__ and PokerEngine.__init__
EngineInit(cfg, rake) ==
    /\ config = cfg
    /\ rake_config = rake
    /\ table = [seats |-> [n \in 0..(cfg.max_players - 1) |-> EmptySeat(n)],
                button_position |-> 0, hand_number |-> 0, status |-> "waiting"]
    /\ hand = NoHand
    /\ current_hand = FALSE
    /\ event_sequence = 0
    /\ total_rake_collected = 0
    /\ result = [op |-> "init", status |-> "ok", ret |-> "None", value |-> 0]
    /\ bought_in = 0
    /\ table_ops = 0

\* The engine as constructed; no Deck is used outside it.
InitWith(cfg, rake) ==
    /\ EngineInit(cfg, rake)
    /\ deck = NewDeck(<<>>)
    /\ returned = <<>>
    /\ text = <<>>
    /\ card = NoCard
    /\ handlers = <<>>
    /\ running = None
    /\ requests = 0

Init == \E cfg \in {DuelConfig, TrioConfig} : InitWith(cfg, SmallRake)

\* The engine fields after an operation, and what it gave back.  An operation
\* that raises before it assigns anything leaves every field as it was: the
\* actions below are the calls that get past those checks (a call that raises
\* later, having assigned some fields, is a step too, with the exception as its
\* status).  What a refused call does is read off the operators themselves.
EngineBecomes(op, o) ==
    /\ table' = o.e.table
    /\ hand' = o.e.hand
    /\ current_hand' = o.e.current_hand
    /\ event_sequence' = o.e.event_sequence
    /\ total_rake_collected' = o.e.total_rake_collected
    /\ result' = [op |-> op, status |-> o.status, ret |-> o.ret, value |-> o.value]
    /\ UNCHANGED <<config, rake_config>>

Becomes(op, o) ==
    /\ o.status = "ok" \/ o.e # Engine
    /\ EngineBecomes(op, o)
    /\ UNCHANGED <<deck, returned, text, card, handlers, running, requests>>

\* The agents the engine holds a reference to, and the callers explored: an
\* agent the state does not mention behaves like any other such agent, so
\* only the least of them is let in.
KnownAgents ==
    {table.seats[n].agent_id : n \in DOMAIN table.seats}
    \cup {hand.betting.players[n].agent_id : n \in DOMAIN hand.betting.players}
Callers ==
    {a \in Agents : a \in KnownAgents \/ \A x \in Agents : x \notin KnownAgents => a <= x}

\* A run is explored up to TableOpsBound table operations, at any points of it.
TableOp ==
    /\ table_ops < TableOpsBound
    /\ table_ops' = table_ops + 1

SeatPlayer ==
    \E agent_id \in Callers, seat_number \in SeatInputs, buy_in \in BuyIns :
        \E o \in {seat_player(Engine, agent_id, seat_number, buy_in)} :
            /\ Becomes("seat_player", o)
            /\ TableOp
            /\ bought_in' = bought_in + buy_in

RemovePlayer ==
    \E agent_id \in Callers :
        \E o \in {remove_player(Engine, agent_id)} :
            /\ Becomes("remove_player", o)
            /\ TableOp
            /\ bought_in' = bought_in - o.value

AddChips ==
    \E agent_id \in Callers, amount \in AddAmounts :
        \E o \in {add_chips(Engine, agent_id, amount)} :
            /\ Becomes("add_chips", o)
            /\ TableOp
            /\ bought_in' = bought_in + amount

StartHand ==
    /\ table.hand_number < HandsBound
    /\ \E shuffled \in Shuffles :
        \E o \in {start_hand(Engine, shuffled)} :
            /\ Becomes("start_hand", o)
            /\ UNCHANGED <<bought_in, table_ops>>

\* The scores matter only to an action that reaches the evaluator: the other
\* actions are explored with one score assignment.
ScoresFor(agent_id, action_type, amount) ==
    LET o == process_action(Engine, agent_id, action_type, amount, DefaultScores)
    IN  IF o.e.hand.phase = "COMPLETE" /\ hand.phase # "COMPLETE"
           /\ \E i \in DOMAIN o.e.hand.events : o.e.hand.events[i].type = "showdown"
        THEN ScoreInputs ELSE {DefaultScores}

ProcessAction ==
    \E agent_id \in Callers, action_type \in ActionTypes :
        \E amount \in (IF action_type \in {"BET", "RAISE"} THEN AmountInputs ELSE {0}) :
            \E scores \in ScoresFor(agent_id, action_type, amount) :
                \E o \in {process_action(Engine, agent_id, action_type, amount, scores)} :
                    /\ Becomes("process_action", o)
                    /\ UNCHANGED <<bought_in, table_ops>>

Next == SeatPlayer \/ RemovePlayer \/ AddChips \/ StartHand \/ ProcessAction

Spec == Init /\ [][Next]_vars

\* The table of test_play_hand_all_in: blinds 5/10, buy-ins from 100 to 1000,
\* six seats, no rake; agent 1 sits at seat 0 and agent 2 at seat 1 with 100
\* chips each, then the hand is played.
TestConfig ==
    [small_blind |-> 5, big_blind |-> 10, min_buy_in |-> 100, max_buy_in |-> 1000,
     max_players |-> 6]
NoRake == [percentage |-> 0, cap |-> 500, threshold |-> 100]

InitAllIn == InitWith(TestConfig, NoRake)

SeatHeadsUp ==
    /\ table_ops < 2
    /\ \E o \in {seat_player(Engine, table_ops + 1, table_ops, TestConfig.min_buy_in)} :
        /\ Becomes("seat_player", o)
        /\ table_ops' = table_ops + 1
        /\ bought_in' = bought_in + TestConfig.min_buy_in

NextAllIn == SeatHeadsUp \/ StartHand \/ ProcessAction

SpecAllIn == InitAllIn /\ [][NextAllIn]_vars

\* The tables of the unit tests' fixtures: engine_with_players (blinds 5/10,
\* the default RakeConfig) and engine_with_rake (blinds 10/20, buy-ins from
\* 200 to 2000, rake 5% capped at 100 on pots of 100 and more); agent 1 sits
\* at seat 0 and agent 2 at seat 1 with 500 chips each.
DefaultRake == [percentage |-> 5, cap |-> 500, threshold |-> 100]
RakeTestConfig ==
    [small_blind |-> 10, big_blind |-> 20, min_buy_in |-> 200, max_buy_in |-> 2000,
     max_players |-> 6]
TestRake == [percentage |-> 5, cap |-> 100, threshold |-> 100]
FixtureBuyIn == 500

InitFixtures ==
    \/ InitWith(TestConfig, DefaultRake)
    \/ InitWith(RakeTestConfig, TestRake)

SeatFixture ==
    /\ table_ops < 2
    /\ \E o \in {seat_player(Engine, table_ops + 1, table_ops, FixtureBuyIn)} :
        /\ Becomes("seat_player", o)
        /\ table_ops' = table_ops + 1
        /\ bought_in' = bought_in + FixtureBuyIn

NextFixtures == SeatFixture \/ StartHand \/ ProcessAction

SpecFixtures == InitFixtures /\ [][NextFixtures]_vars

\* Tables where a blind or a raise can take a whole stack: three seats at
\* blinds 1/2 with buy-ins from 3 to 5, and four seats at blinds 2/4 with
\* buy-ins from 1 to 8.  The seats fill in order, each agent buying in for
\* the least or the most the table allows.
ShortTrioConfig ==
    [small_blind |-> 1, big_blind |-> 2, min_buy_in |-> 3, max_buy_in |-> 5,
     max_players |-> 3]
ShortQuadConfig ==
    [small_blind |-> 2, big_blind |-> 4, min_buy_in |-> 1, max_buy_in |-> 8,
     max_players |-> 4]

InitShort == \E cfg \in {ShortTrioConfig, ShortQuadConfig} : InitWith(cfg, SmallRake)

SeatInOrder ==
    /\ table_ops < config.max_players
    /\ \E buy_in \in {config.min_buy_in, config.max_buy_in} :
        \E o \in {seat_player(Engine, table_ops + 1, table_ops, buy_in)} :
            /\ Becomes("seat_player", o)
            /\ table_ops' = table_ops + 1
            /\ bought_in' = bought_in + buy_in

NextShort == SeatInOrder \/ StartHand \/ ProcessAction

SpecShort == InitShort /\ [][NextShort]_vars

(***************************************************************************)
(* Properties.                                                             *)
(***************************************************************************)
SumStacks == SumOver([n \in DOMAIN table.seats |-> table.seats[n].stack], DOMAIN table.seats)

\* The chips wagered in the hand in progress.
CurrentPot == IF current_hand THEN hand.betting.pot ELSE 0

\* C1: chip conservation: between operations the seat stacks, the pot of the
\* hand in progress and the rake collected add up to the chips bought in.
C1_ChipConservation == SumStacks + CurrentPot + total_rake_collected = bought_in

\* The inputs a caller can hand to process_action.
AnyAmounts == (-1)..(config.max_players * config.max_buy_in + 1)

\* The three kinds of illegal call: out of turn, an action type that is not
\* valid for the seat, a BET / RAISE amount below the minimum raise-to or above
\* what the player has.
OutOfTurn(agent_id) ==
    get_seat_by_agent(table, agent_id) = -1
    \/ get_seat_by_agent(table, agent_id) # hand.betting.action_on
NotValid(agent_id, action_type) ==
    action_type \notin get_valid_actions(hand.betting, get_seat_by_agent(table, agent_id))
BadAmount(agent_id, action_type, amount) ==
    /\ action_type \in {"BET", "RAISE"}
    /\ get_seat_by_agent(table, agent_id) \in DOMAIN hand.betting.players
    /\ LET player == hand.betting.players[get_seat_by_agent(table, agent_id)]
       IN  \/ amount < get_min_raise_to(hand.betting)
           \/ amount - player.bet_this_round > player.stack
Illegal(agent_id, action_type, amount) ==
    OutOfTurn(agent_id) \/ NotValid(agent_id, action_type)
    \/ BadAmount(agent_id, action_type, amount)

\* C2: rejection invariance: while a hand is in progress, process_action called
\* out of turn, with an action type that is not valid for the seat, or with a
\* BET / RAISE amount below the minimum raise-to or above the player's stack,
\* raises and leaves the whole engine as it was.
C2_RejectionInvariance ==
    current_hand =>
        \A agent_id \in Agents, action_type \in ActionTypes, amount \in AnyAmounts :
            Illegal(agent_id, action_type, amount) =>
                LET o == process_action(Engine, agent_id, action_type, amount,
                                        DefaultScores)
                IN  o.status = "ValueError" /\ o.e = Engine

\* A hand in progress in which the seat to act may RAISE and is refused both
\* an amount below the minimum raise-to and an amount above its stack.
C2_Witness ==
    /\ current_hand
    /\ \E agent_id \in Agents, low, high \in AnyAmounts :
        /\ ~OutOfTurn(agent_id) /\ ~NotValid(agent_id, "RAISE")
        /\ low < get_min_raise_to(hand.betting)
        /\ high >= get_min_raise_to(hand.betting)
        /\ BadAmount(agent_id, "RAISE", high)
        /\ process_action(Engine, agent_id, "RAISE", low, DefaultScores).status
               = "ValueError"
        /\ process_action(Engine, agent_id, "RAISE", high, DefaultScores).status
               = "ValueError"

\* The round is complete, as the specification words it.
RoundCompleteAsSpecified(b) ==
    \/ count_active_players(b) <= 1
    \/ \A s \in DOMAIN b.players :
          is_active(b.players[s]) =>
              b.players[s].has_acted /\ b.players[s].bet_this_round = b.current_bet

\* C3: round completion: whatever valid action the seat to act takes, the
\* betting round is reported complete exactly when at most one non-folded player
\* remains or every non-folded, non-all-in seat has acted and matched current_bet.
C3_RoundCompletion ==
    current_hand =>
        \A action_type \in get_valid_actions(hand.betting, hand.betting.action_on),
           amount \in AnyAmounts :
            LET bo == betting_process_action(hand.betting, hand.betting.action_on,
                                             action_type, amount)
            IN  bo.status = "ok" => (bo.ret <=> RoundCompleteAsSpecified(bo.b))

\* C5: remove_player is refused, the engine left as it was, for every agent
\* whose seat holds hole cards in the hand in progress.
C5_RemoveRejectedDuringHand ==
    current_hand =>
        \A agent_id \in Agents :
            get_seat_by_agent(table, agent_id) \in DOMAIN hand.hole_cards =>
                /\ remove_player(Engine, agent_id).status # "ok"
                /\ remove_player(Engine, agent_id).e = Engine

\* The seats an agent was dealt into in the hand in progress.
DealtTo(agent_id) ==
    {n \in DOMAIN hand.hole_cards :
        n \in DOMAIN hand.betting.players /\ hand.betting.players[n].agent_id = agent_id}

\* C6: hole-card privacy: the snapshot get_state gives an agent holds hole cards
\* only if they were dealt to that agent in the hand in progress.
C6_HoleCardPrivacy ==
    \A agent_id \in Agents :
        LET snapshot == get_state(Engine, agent_id)
        IN  snapshot.has_hand /\ snapshot.hand.has_your_cards =>
                \E n \in DealtTo(agent_id) : snapshot.hand.your_cards = hand.hole_cards[n]

\* The actions taken so far in the hand, in order.
ActionsTaken == SelectSeq(hand.events, LAMBDA ev : ev.type = "player_action")

\* The other seat of a heads-up hand.
OtherAgent(agent_id) ==
    CHOOSE a \in Agents :
        a # agent_id /\ \E n \in DOMAIN hand.betting.players :
                            hand.betting.players[n].agent_id = a

\* C4: scenario D (all-in runout), heads-up with stacks 100/100 and no rake:
\* after the first seat to act goes ALL_IN preflop the hand is still in progress
\* and the other seat's CALL is accepted; after that call all five community
\* cards are out, the hand is complete after a showdown and the two stacks sum
\* to 200.
C4_AllInRunout ==
    /\ (Len(ActionsTaken) = 1 /\ ActionsTaken[1].info = "ALL_IN") =>
          /\ current_hand
          /\ process_action(Engine, OtherAgent(ActionsTaken[1].agent_id), "CALL", 0,
                            DefaultScores).status = "ok"
    /\ (Len(ActionsTaken) = 2 /\ ActionsTaken[1].info = "ALL_IN"
        /\ ActionsTaken[2].info = "CALL") =>
          /\ ~current_hand /\ hand.phase = "COMPLETE"
          /\ Len(hand.community_cards) = 5
          /\ \E i \in DOMAIN hand.events : hand.events[i].type = "showdown"
          /\ SumStacks = 200

\* The operation of this step ended the hand that was in progress.
HandEnds == current_hand /\ ~current_hand'

\* C7: uncontested pot: a process_action that leaves exactly one non-folded
\* player credits the whole pot minus rake to that player's seat, deals no
\* community card, records no showdown, ends the hand and returns False.
C7_UncontestedPot ==
    [][(result'.op = "process_action" /\ count_active_players(hand'.betting) = 1) =>
          LET b == hand'.betting
              winner == CHOOSE n \in DOMAIN b.players : ~b.players[n].is_folded
          IN  /\ table'.seats[winner].stack
                     = table.seats[winner].stack + b.pot - calculate_rake(b.pot)
              /\ hand'.community_cards = hand.community_cards
              /\ \A i \in DOMAIN hand'.events : hand'.events[i].type # "showdown"
              /\ ~current_hand'
              /\ result'.ret = "False"]_vars

\* A hand won by the last player left, with rake taken from the pot.
C7_Witness ==
    /\ result.op = "process_action" /\ ~current_hand /\ hand.phase = "COMPLETE"
    /\ count_active_players(hand.betting) = 1
    /\ hand.rake_collected > 0
    /\ hand.events[Len(hand.events)].info = "fold_win"

\* The payload of the showdown event that ends a hand.
ShowdownData(h) == h.events[Len(h.events)].data

ReachesShowdown(h) ==
    h.events # <<>> /\ h.events[Len(h.events)].type = "showdown"

\* C8: showdown distribution: the winners are exactly the non-folded seats with
\* the lowest score; with k winners and P = pot - rake each winner gets P \div k
\* and the first P % k winners, in evaluation order, one chip more; the payouts
\* add up to P and no other seat's stack changes.
C8_ShowdownDistribution ==
    [][(HandEnds /\ ReachesShowdown(hand')) =>
          LET b == hand'.betting
              contenders == {n \in DOMAIN b.players : ~b.players[n].is_folded}
              score == ShowdownData(hand').hands
              best == {n \in contenders : \A m \in contenders : score[n] <= score[m]}
              k == Cardinality(best)
              P == b.pot - calculate_rake(b.pot)
              payout == [n \in DOMAIN table.seats |->
                            IF n \in best
                            THEN (P \div k) + (IF IndexOf(sorted(best), n) < P % k
                                               THEN 1 ELSE 0)
                            ELSE 0]
              \* the stacks once the action is applied: the actor's seat takes
              \* the stack of its betting state
              before == [n \in DOMAIN table.seats |->
                            IF n = hand.betting.action_on THEN b.players[n].stack
                            ELSE table.seats[n].stack]
          IN  /\ DOMAIN score = contenders
              /\ {ShowdownData(hand').winners[i].seat :
                     i \in DOMAIN ShowdownData(hand').winners} = best
              /\ \A n \in DOMAIN table.seats :
                    table'.seats[n].stack = before[n] + payout[n]
              /\ SumOver(payout, DOMAIN table.seats) = P]_vars

\* A showdown split between two winners, the odd chip going to the first of
\* them in evaluation order.
C8_Witness ==
    /\ ~current_hand /\ ReachesShowdown(hand)
    /\ Len(ShowdownData(hand).winners) = 2
    /\ ShowdownData(hand).winners[1].amount = ShowdownData(hand).winners[2].amount + 1
    /\ ShowdownData(hand).winners[1].seat < ShowdownData(hand).winners[2].seat

\* The rake as the specification words it.
RakeAsSpecified(rc, pot) ==
    IF pot < rc.threshold THEN 0
    ELSE IF (pot * rc.percentage) \div 100 <= rc.cap
    THEN (pot * rc.percentage) \div 100 ELSE rc.cap

\* The rake configuration of the rake tests: 5%, cap 100, threshold 100.

\* C9: rake: a hand is raked once, when it ends: 0 for a pot under the
\* threshold, else the floor of pot * percentage capped at cap; the hand's
\* rake_collected is that value and total_rake_collected grows by it, and by
\* nothing at any other step.  With 5% / cap 100 / threshold 100 the pots
\* 1000, 5000, 100 and 50 give 50, 100, 5 and 0.
C9_Rake ==
    [][/\ calculate_rake_with(TestRake, 1000) = 50
       /\ calculate_rake_with(TestRake, 5000) = 100
       /\ calculate_rake_with(TestRake, 100) = 5
       /\ calculate_rake_with(TestRake, 50) = 0
       /\ HandEnds =>
             LET rake == RakeAsSpecified(rake_config, hand'.betting.pot)
             IN  /\ hand'.rake_collected = rake
                 /\ total_rake_collected' = total_rake_collected + rake
                 /\ rake <= rake_config.cap
                 /\ rake <= hand'.betting.pot
       /\ ~HandEnds =>
             /\ total_rake_collected' = total_rake_collected
             /\ current_hand' => hand'.rake_collected = 0]_vars

\* A hand that ended with its rake held down to the cap, the rake on the books.
C9_Witness ==
    /\ ~current_hand /\ hand.phase = "COMPLETE"
    /\ (hand.betting.pot * rake_config.percentage) \div 100 > rake_config.cap
    /\ hand.rake_collected = rake_config.cap
    /\ total_rake_collected >= rake_config.cap

PhaseRank(phase) ==
    CASE phase = "WAITING" -> 0
      [] phase = "PREFLOP" -> 1
      [] phase = "FLOP" -> 2
      [] phase = "TURN" -> 3
      [] phase = "RIVER" -> 4
      [] phase = "SHOWDOWN" -> 5
      [] phase = "COMPLETE" -> 6

SameHand == hand.hand_number > 0 /\ hand'.hand_number = hand.hand_number

\* C10: phase order: within one hand the phase never moves backward, a new
\* betting round comes only with a later phase, COMPLETE is final, and a hand
\* that is COMPLETE is not the engine's current hand: the engine holds none
\* until start_hand opens the next one, at PREFLOP.
C10_PhaseOrder ==
    [][/\ SameHand => PhaseRank(hand'.phase) >= PhaseRank(hand.phase)
       /\ (SameHand /\ hand'.betting.round # hand.betting.round) =>
              PhaseRank(hand'.phase) > PhaseRank(hand.phase)
       /\ (SameHand /\ hand.phase = "COMPLETE") => hand'.phase = "COMPLETE"
       /\ hand'.phase = "COMPLETE" => ~current_hand'
       /\ HandEnds => hand'.phase = "COMPLETE"
       /\ current_hand' => hand'.phase \in {"PREFLOP", "FLOP", "TURN", "RIVER", "SHOWDOWN"}
       /\ (~current_hand /\ current_hand') =>
              /\ result'.op = "start_hand"
              /\ hand'.phase = "PREFLOP"
              /\ hand'.hand_number > hand.hand_number]_vars

\* A hand that went through every betting round to a showdown and is released.
C10_Witness ==
    /\ ~current_hand /\ hand.phase = "COMPLETE" /\ ReachesShowdown(hand)
    /\ \A phase \in {"FLOP", "TURN", "RIVER"} :
          \E i \in DOMAIN hand.events :
              hand.events[i].type = "community_cards" /\ hand.events[i].info = phase

ValidActionsAsSpecified(b, seat) ==
    IF seat \notin DOMAIN b.players \/ ~is_active(b.players[seat]) THEN {}
    ELSE LET player == b.players[seat]
         IN  {"FOLD"}
             \cup (IF player.bet_this_round = b.current_bet THEN {"CHECK"} ELSE {})
             \cup (IF /\ b.current_bet > player.bet_this_round
                      /\ player.stack >= b.current_bet - player.bet_this_round
                   THEN {"CALL"} ELSE {})
             \cup (IF b.current_bet = 0 /\ player.stack >= b.big_blind
                   THEN {"BET"} ELSE {})
             \cup (IF /\ b.current_bet > 0
                      /\ player.stack + player.bet_this_round >= b.current_bet + b.min_raise
                   THEN {"RAISE"} ELSE {})
             \cup (IF player.stack > 0 THEN {"ALL_IN"} ELSE {})

\* C11: valid actions: in the betting state of the hand in progress,
\* get_valid_actions gives every seat of the table exactly FOLD always, CHECK
\* iff bet_this_round = current_bet, CALL iff current_bet > bet_this_round and
\* the stack covers the difference, BET iff current_bet = 0 and the stack
\* covers the big blind, RAISE iff current_bet > 0 and stack + bet_this_round
\* >= current_bet + min_raise, ALL_IN iff stack > 0, and nothing for a folded,
\* all-in or absent seat.
C11_ValidActions ==
    current_hand =>
        \A seat \in SeatNumbers :
            get_valid_actions(hand.betting, seat) = ValidActionsAsSpecified(hand.betting, seat)

OthersToAct(b, seat) == {s \in DOMAIN b.players : s # seat /\ is_active(b.players[s])}

\* A BET or RAISE to amount that went through, leaving the betting state after.
BetRaiseAsSpecified(b, seat, amount, after) ==
    LET player == b.players[seat]
    IN  /\ \/ amount >= b.current_bet + b.min_raise
           \/ amount = player.stack + player.bet_this_round
        /\ amount - player.bet_this_round <= player.stack
        /\ after.players[seat].stack = player.stack - (amount - player.bet_this_round)
        /\ after.pot = b.pot + (amount - player.bet_this_round)
        /\ after.current_bet = amount
        /\ after.min_raise = amount - b.current_bet
        /\ after.last_aggressor = seat
        /\ \A s \in OthersToAct(b, seat) : ~after.players[s].has_acted

\* C12: BET / RAISE: a BET or RAISE by the seat to act that is accepted meets
\* the minimum raise (or is the whole stack) and is covered by the stack, moves
\* exactly amount - bet_this_round chips from the stack to the pot, sets
\* current_bet, min_raise and last_aggressor, resets has_acted of every other
\* non-folded, non-all-in seat, and leaves the round not complete while such a
\* seat exists.
C12_BetRaise ==
    current_hand =>
        LET b == hand.betting
            seat == b.action_on
        IN  \A action_type \in get_valid_actions(b, seat) \cap {"BET", "RAISE"},
               amount \in AnyAmounts :
                LET bo == betting_process_action(b, seat, action_type, amount)
                IN  bo.status = "ok" =>
                        /\ BetRaiseAsSpecified(b, seat, amount, bo.b)
                        /\ OthersToAct(b, seat) # {} => ~bo.ret

\* C13: ALL_IN reopening: an ALL_IN by the seat to act moves its whole stack
\* into the pot and marks it all-in; when the new total exceeds current_bet by
\* at least min_raise, has_acted is reset for the other active seats; otherwise
\* min_raise and their has_acted flags stay as they were and none of them that
\* had already acted is offered RAISE.
C13_AllInReopening ==
    current_hand =>
        LET b == hand.betting
            seat == b.action_on
        IN  "ALL_IN" \in get_valid_actions(b, seat) =>
                LET after == betting_process_action(b, seat, "ALL_IN", 0).b
                    player == b.players[seat]
                    total_bet == player.bet_this_round + player.stack
                    reopens == /\ total_bet > b.current_bet
                               /\ total_bet - b.current_bet >= b.min_raise
                IN  /\ after.players[seat].stack = 0
                    /\ after.players[seat].is_all_in
                    /\ after.pot = b.pot + player.stack
                    /\ reopens => \A s \in OthersToAct(b, seat) : ~after.players[s].has_acted
                    /\ ~reopens =>
                           /\ after.min_raise = b.min_raise
                           /\ \A s \in OthersToAct(b, seat) :
                                  /\ after.players[s].has_acted = b.players[s].has_acted
                                  /\ b.players[s].has_acted =>
                                         "RAISE" \notin get_valid_actions(after, s)

\* The first seat of S after seat s, in ascending order with wrap-around.
NextAfter(S, s) ==
    IF \E x \in S : x > s
    THEN CHOOSE x \in S : x > s /\ \A y \in S : y > s => x <= y
    ELSE CHOOSE x \in S : \A y \in S : x <= y

\* The blinds and the first seat to act preflop among the ready seats, the
\* button given: heads-up the button posts the small blind, otherwise the two
\* seats after it post; the seat after the big blind acts first.
PositionsAsSpecified(ready, button) ==
    LET sb == IF Cardinality(ready) = 2 THEN button ELSE NextAfter(ready, button)
        bb == NextAfter(ready, sb)
    IN  [sb |-> sb, bb |-> bb, first |-> NextAfter(ready, bb)]

StartsHand == result'.op = "start_hand" /\ result'.status = "ok"

\* C14: start_hand initial betting state: straight after a successful
\* start_hand the small-blind seat has posted min(small_blind, stack) and the
\* big-blind seat min(big_blind, stack), the pot is the sum of the two,
\* current_bet is the configured big_blind, min_raise is big_blind, action_on
\* is the first seat to act preflop, the phase is PREFLOP and the first logged
\* event is hand_start.
C14_StartHandBetting ==
    [][StartsHand =>
          LET pos == PositionsAsSpecified(get_ready_players(table), table'.button_position)
              b == hand'.betting
              sb_amount == Min(config.small_blind, table.seats[pos.sb].stack)
              bb_amount == Min(config.big_blind, table.seats[pos.bb].stack)
          IN  /\ b.players[pos.sb].bet_this_round = sb_amount
              /\ table'.seats[pos.sb].stack = table.seats[pos.sb].stack - sb_amount
              /\ b.players[pos.bb].bet_this_round = bb_amount
              /\ table'.seats[pos.bb].stack = table.seats[pos.bb].stack - bb_amount
              /\ b.pot = sb_amount + bb_amount
              /\ hand'.pot = sb_amount + bb_amount
              /\ b.current_bet = config.big_blind
              /\ b.min_raise = config.big_blind
              /\ b.action_on = pos.first
              /\ hand'.phase = "PREFLOP"
              /\ hand'.events[1].type = "hand_start"]_vars

\* The hand was dealt to two players who held 500 chips each.
HeadsUp500 ==
    /\ Cardinality(DOMAIN hand.betting.players) = 2
    /\ \A s \in DOMAIN hand.betting.players :
          LET player == hand.betting.players[s]
          IN  player.stack + player.total_bet_this_hand = FixtureBuyIn

\* C15: scenario A, heads-up at blinds 5/10 with stacks 500/500: start_hand
\* leaves pot 15, stacks summing to 985 and phase PREFLOP with the button to
\* act; after the button's CALL the betting pot is 20 and the round goes on;
\* after the other seat's CHECK the phase is FLOP with exactly 3 community
\* cards and the betting pot is still 20.
C15_ScenarioA ==
    (config = TestConfig /\ HeadsUp500) =>
        /\ (current_hand /\ Len(ActionsTaken) = 0) =>
              /\ hand.pot = 15
              /\ hand.betting.pot = 15
              /\ SumStacks = 985
              /\ hand.phase = "PREFLOP"
              /\ hand.betting.action_on = table.button_position
        /\ (Len(ActionsTaken) = 1 /\ ActionsTaken[1].info = "CALL") =>
              /\ current_hand
              /\ hand.betting.pot = 20
              /\ hand.phase = "PREFLOP"
              /\ ~is_round_complete(hand.betting)
              /\ hand.betting.action_on # table.button_position
        /\ (Len(ActionsTaken) = 2 /\ ActionsTaken[1].info = "CALL"
            /\ ActionsTaken[2].info = "CHECK") =>
              /\ current_hand
              /\ hand.phase = "FLOP"
              /\ Len(hand.community_cards) = 3
              /\ hand.betting.pot = 20

\* The button has called and the other seat checked, at blinds 5/10 with 500
\* chips each: the flop is out.
C15_Witness ==
    /\ config = TestConfig /\ HeadsUp500
    /\ Len(ActionsTaken) = 2
    /\ ActionsTaken[1].info = "CALL" /\ ActionsTaken[2].info = "CHECK"
    /\ ActionsTaken[1].agent_id = table.seats[table.button_position].agent_id
    /\ hand.phase = "FLOP"

\* Scenario B so far: at blinds 10/20 with 500 chips each the first seat to
\* act has raised to 100, and then, with folded set, the other seat has folded.
RaisedTo100(folded) ==
    /\ config = RakeTestConfig /\ HeadsUp500
    /\ Len(ActionsTaken) = (IF folded THEN 2 ELSE 1)
    /\ ActionsTaken[1].info = "RAISE"
    /\ hand.betting.current_bet = 100
    /\ folded => ActionsTaken[2].info = "FOLD"

\* What scenario B leaves, the pot after the raise being pot: the pot after
\* the raise, and after the fold the raiser paid pot less the rake, the rake
\* on the books, the hand over with no community card and no showdown.
ScenarioBWithPot(pot) ==
    /\ RaisedTo100(FALSE) => current_hand /\ hand.betting.pot = pot
    /\ RaisedTo100(TRUE) =>
          LET raiser == get_seat_by_agent(table, ActionsTaken[1].agent_id)
              rake == hand.rake_collected
          IN  /\ hand.betting.pot = pot
              /\ table.seats[raiser].stack = FixtureBuyIn - 100 + pot - rake
              /\ rake > 0
              /\ total_rake_collected = rake
              /\ ~current_hand /\ hand.phase = "COMPLETE"
              /\ hand.community_cards = <<>>
              /\ \A i \in DOMAIN hand.events : hand.events[i].type # "showdown"

C17_TableOpRejection ==
    /\ \A agent_id \in Agents, seat_number \in SeatInputs, buy_in \in BuyIns :
          (\/ seat_number \notin SeatNumbers
           \/ is_occupied(table.seats[seat_number])
           \/ buy_in < config.min_buy_in
           \/ buy_in > config.max_buy_in) =>
              LET o == seat_player(Engine, agent_id, seat_number, buy_in)
              IN  o.status # "ok" /\ o.e = Engine
    /\ \A shuffled \in Shuffles :
          LET o == start_hand(Engine, shuffled)
          IN  /\ (current_hand \/ Cardinality(get_ready_players(table)) < 2) =>
                     o.status # "ok" /\ o.e = Engine
              /\ can_start_hand(Engine) <=> o.status = "ok"

\* The operation of this step opened the flop, turn or river betting round.
RoundStarts ==
    /\ SameHand /\ current_hand'
    /\ result'.status = "ok"
    /\ hand'.betting.round # hand.betting.round

\* The seats that remain active in the hand: not folded, not all-in, by the
\* flag and by the chips (a blind that took the whole stack sets no flag).
ActiveInHand(b) ==
    {s \in DOMAIN b.players : is_active(b.players[s]) /\ b.players[s].stack > 0}

\* C18: postflop first to act: at the start of every flop, turn and river
\* betting round action_on is the first seat after the button, in ascending
\* seat order with wrap-around, among the non-folded, non-all-in seats of the
\* hand, the button itself active or not.
C18_PostflopFirstToAct ==
    [][RoundStarts =>
          hand'.betting.action_on =
              NextAfter(ActiveInHand(hand'.betting), table'.button_position)]_vars

\* C19: blind and preflop positions: at start_hand with exactly two ready
\* seats the button seat posts the small blind and the other ready seat the big
\* blind; with three or more the first and second ready seats after the button
\* post them; the two seats are distinct, nobody else has posted, and the
\* first seat to act preflop is the ready seat right after the big blind.
C19_BlindPositions ==
    [][StartsHand =>
          LET ready == get_ready_players(table)
              pos == PositionsAsSpecified(ready, table'.button_position)
              players == hand'.betting.players
          IN  /\ Cardinality(ready) = 2 => pos.sb = table'.button_position
              /\ pos.sb # pos.bb
              /\ players[pos.sb].bet_this_round =
                     Min(config.small_blind, table.seats[pos.sb].stack)
              /\ players[pos.bb].bet_this_round =
                     Min(config.big_blind, table.seats[pos.bb].stack)
              /\ \A s \in DOMAIN players \ {pos.sb, pos.bb} :
                     players[s].bet_this_round = 0
              /\ hand'.betting.action_on = pos.first]_vars

\* A round opens in a hand dealt to exactly two players.
HeadsUpRoundStarts == RoundStarts /\ Cardinality(DOMAIN hand'.betting.players) = 2

\* C20: heads-up postflop order: in a hand with exactly two players, both
\* still seated with chips, at the start of the flop, turn and river betting
\* rounds action_on is the seat that is not the button (the big blind).
C20_HeadsUpPostflop ==
    [][(/\ HeadsUpRoundStarts
        /\ \A s \in DOMAIN hand'.betting.players : is_ready(table'.seats[s])) =>
           /\ hand'.betting.action_on \in DOMAIN hand'.betting.players
           /\ hand'.betting.action_on # table'.button_position]_vars

\* C20 as stated: at the start of the flop, turn and river rounds of a hand
\* with exactly two players action_on is the button seat.
C20_HeadsUpPostflopAsStated ==
    [][HeadsUpRoundStarts => hand'.betting.action_on = table'.button_position]_vars

\* A heads-up hand on the flop, nobody having acted in the round: the button
\* posted the small blind and the other seat is to act.
C20_Witness ==
    /\ current_hand /\ hand.betting.round = "flop"
    /\ Cardinality(DOMAIN hand.betting.players) = 2
    /\ table.button_position \in DOMAIN hand.betting.players
    /\ \A s \in DOMAIN hand.betting.players :
          is_ready(table.seats[s]) /\ ~hand.betting.players[s].has_acted
    /\ hand.betting.action_on \in DOMAIN hand.betting.players \ {table.button_position}

\* C21: button rotation: advance_button moves the button from where it is to
\* the next ready seat in ascending seat order, wrapping past the highest seat,
\* the seat that held the button ready or not; with no ready seat the button
\* stays.
C21_ButtonRotation ==
    LET ready == get_ready_players(table)
    IN  advance_button(table).button_position =
            IF ready = {} THEN table.button_position
            ELSE NextAfter(ready, table.button_position)

\* The seats that still owe action: not folded, not all-in, and either not yet
\* acted since the action was last reopened or behind the current bet.
OwesAction(b) ==
    {s \in DOMAIN b.players :
        /\ is_active(b.players[s])
        /\ ~b.players[s].has_acted \/ b.players[s].bet_this_round < b.current_bet}

\* An accepted action left the hand running in the same betting round.
RoundGoesOn ==
    /\ result'.op = "process_action" /\ result'.status = "ok"
    /\ SameHand /\ current_hand /\ current_hand'
    /\ hand' # hand
    /\ hand'.betting.round = hand.betting.round

\* C22: next to act: when an accepted action leaves the hand running and the
\* round incomplete, action_on becomes the first seat that owes action found
\* scanning upward from the previous action_on + 1 and wrapping around the
\* table; the seat that just acted comes last in the scan, so it does not act
\* again while another seat owes action.
C22_NextToAct ==
    [][RoundGoesOn =>
          LET previous == hand.betting.action_on
              owing == OwesAction(hand'.betting)
          IN  /\ owing # {}
              /\ hand'.betting.action_on =
                     IF owing \ {previous} # {} THEN NextAfter(owing \ {previous}, previous)
                     ELSE previous]_vars

\* The seat of the agent that acted last in the hand.
LastActor == get_seat_by_agent(table, ActionsTaken[Len(ActionsTaken)].agent_id)

\* The action has just passed over a folded seat: the seat after the one that
\* acted last has folded, and a seat further on is to act.
C22_Witness ==
    /\ current_hand /\ result.op = "process_action" /\ result.status = "ok"
    /\ Len(ActionsTaken) > 0 /\ LastActor \in DOMAIN hand.betting.players
    /\ LET b == hand.betting
           skipped == NextAfter(DOMAIN b.players \ {LastActor}, LastActor)
       IN  /\ Cardinality(DOMAIN b.players) >= 3
           /\ b.players[LastActor].has_acted
           /\ b.players[skipped].is_folded
           /\ b.action_on \in OwesAction(b) \ {LastActor, skipped}

\* An accepted action closed a betting round with two or more players not
\* folded and at most one of them able to act.
BettingIsOver ==
    /\ result'.op = "process_action" /\ result'.status = "ok"
    /\ current_hand
    /\ count_active_players(hand'.betting) >= 2
    /\ count_players_with_action(hand'.betting) <= 1

\* The event types and tags logged by this step, in order.
NewEvents ==
    [i \in 1..(Len(hand'.events) - Len(hand.events)) |->
        <<hand'.events[Len(hand.events) + i].type, hand'.events[Len(hand.events) + i].info>>]

\* What the step that ends the betting does, logged_on_river telling whether
\* a RUNOUT event is logged when the five cards are already out.
RunoutAsSpecified(logged_on_river) ==
    LET burns == CASE hand.phase = "PREFLOP" -> 3
                   [] hand.phase = "FLOP" -> 2
                   [] hand.phase = "TURN" -> 1
                   [] OTHER -> 0
        runout == IF hand.phase # "RIVER" \/ logged_on_river
                  THEN <<"community_cards">> ELSE <<>>
    IN  /\ Len(hand'.community_cards) = 5
        /\ SubSeq(hand'.community_cards, 1, Len(hand.community_cards)) = hand.community_cards
        /\ Len(hand'.deck.cards) =
               Len(hand.deck.cards) - (5 - Len(hand.community_cards)) - burns
        /\ [i \in DOMAIN NewEvents |-> NewEvents[i][1]] =
               <<"player_action">> \o runout \o <<"showdown">>
        /\ \A i \in DOMAIN NewEvents :
               NewEvents[i][1] = "community_cards" => NewEvents[i][2] = "RUNOUT"
        /\ ~current_hand'
        /\ hand'.phase = "COMPLETE"
        /\ result'.ret = "False"

\* C23: all-in runout: when a betting round completes with at least two
\* players not folded and at most one able to act, the same process_action
\* deals the community cards still missing up to five, burning one card before
\* the flop, the turn and the river, logs one community_cards event tagged
\* RUNOUT (none when the round was the river, the five cards being out), goes
\* to showdown and completes the hand, which takes no further action.
C23_Runout == [][BettingIsOver => RunoutAsSpecified(FALSE)]_vars

\* C23 as stated: exactly one RUNOUT event is logged whatever the round.
C23_RunoutAsStated == [][BettingIsOver => RunoutAsSpecified(TRUE)]_vars

\* A hand whose betting ended before the river: the board was run out under
\* one RUNOUT event and the hand went to its showdown.
C23_Witness ==
    /\ ~current_hand /\ hand.phase = "COMPLETE" /\ ReachesShowdown(hand)
    /\ Len(hand.community_cards) = 5
    /\ count_players_with_action(hand.betting) <= 1
    /\ \E i \in DOMAIN hand.events : hand.events[i].info = "RUNOUT"

\* The number of community cards that goes with each phase of a running hand.
BoardSize(phase) ==
    CASE phase = "PREFLOP" -> 0
      [] phase = "FLOP" -> 3
      [] phase = "TURN" -> 4
      [] OTHER -> 5

\* The hand moved on to a later phase and is still running.
PhaseAdvances ==
    /\ SameHand /\ current_hand /\ current_hand'
    /\ hand'.phase # hand.phase

\* C24: community-card dealing: a hand in progress shows 0 community cards in
\* PREFLOP, 3 in FLOP, 4 in TURN and 5 in RIVER; a running hand moves on only
\* from PREFLOP to FLOP, burning one card and dealing three, and from FLOP to
\* TURN and TURN to RIVER, burning one and dealing one, each move logging one
\* community_cards event; an accepted action never leaves a completed round
\* standing in its phase, and a hand on the RIVER stays there or ends, with a
\* showdown when two or more players have not folded.
C24_CommunityCards ==
    [][/\ current_hand => Len(hand.community_cards) = BoardSize(hand.phase)
       /\ current_hand' => Len(hand'.community_cards) = BoardSize(hand'.phase)
       /\ PhaseAdvances =>
             LET n == IF hand.phase = "PREFLOP" THEN 3 ELSE 1
             IN  /\ <<hand.phase, hand'.phase>> \in
                        {<<"PREFLOP", "FLOP">>, <<"FLOP", "TURN">>, <<"TURN", "RIVER">>}
                 /\ hand'.community_cards =
                        hand.community_cards \o SubSeq(hand.deck.cards, 2, n + 1)
                 /\ hand'.deck.cards =
                        SubSeq(hand.deck.cards, n + 2, Len(hand.deck.cards))
                 /\ Cardinality({i \in DOMAIN NewEvents :
                                    NewEvents[i][1] = "community_cards"}) = 1
       /\ (RoundGoesOn /\ hand'.phase = hand.phase) => ~is_round_complete(hand'.betting)
       /\ (current_hand /\ hand.phase = "RIVER" /\ hand' # hand) =>
             /\ hand'.phase \in {"RIVER", "COMPLETE"}
             /\ (HandEnds /\ count_active_players(hand'.betting) >= 2) =>
                    ReachesShowdown(hand')]_vars

\* A hand in progress on the river, its five cards dealt over three logged
\* moves.
C24_Witness ==
    /\ current_hand /\ hand.phase = "RIVER" /\ Len(hand.community_cards) = 5
    /\ Len(SelectSeq(hand.events, LAMBDA ev : ev.type = "community_cards")) = 3
    /\ Len(hand.deck.cards) = 52 - 2 * Cardinality(DOMAIN hand.hole_cards) - 8

\* The log of the hand is numbered 1, 2, 3, ... and opens with hand_start.
WellNumbered(h) ==
    /\ \A i \in DOMAIN h.events : h.events[i].sequence = i
    /\ h.events # <<>> => h.events[1].type = "hand_start"

\* C25: event log: within one hand the log only grows at its end, its
\* sequence numbers start at 1 with hand_start and go up by one with every
\* entry, every accepted player action appends exactly one player_action
\* event, and that event comes before the community_cards or showdown events
\* the action brings about.
C25_EventLog ==
    [][/\ WellNumbered(hand) /\ WellNumbered(hand')
       /\ current_hand' => hand'.events # <<>> /\ event_sequence' = Len(hand'.events)
       /\ SameHand =>
             /\ Len(hand'.events) >= Len(hand.events)
             /\ SubSeq(hand'.events, 1, Len(hand.events)) = hand.events
       /\ (result'.op = "process_action" /\ result'.status = "ok" /\ current_hand) =>
             /\ SameHand
             /\ NewEvents # <<>>
             /\ NewEvents[1][1] = "player_action"
             /\ \A i \in DOMAIN NewEvents : i > 1 => NewEvents[i][1] # "player_action"]_vars

\* A finished hand whose log holds player actions, community cards and a
\* showdown.
C25_Witness ==
    /\ ~current_hand /\ ReachesShowdown(hand)
    /\ Len(ActionsTaken) >= 2
    /\ \E i \in DOMAIN hand.events : hand.events[i].type = "community_cards"
    /\ hand.events[Len(hand.events)].sequence >= 5

(***************************************************************************)
(* A Deck on its own: reset, deal and burn called in any order.            *)
(***************************************************************************)
\* The counts given to Deck.deal.
DealCounts == {-1, 0, 1, 2, 5, 26}

\* Deck.__init__: reset() with some outcome of the shuffle.
InitDeck ==
    /\ EngineInit(TestConfig, NoRake)
    /\ \E shuffled \in Shuffles : deck = NewDeck(shuffled)
    /\ returned = <<>>
    /\ text = <<>>
    /\ card = NoCard
    /\ handlers = <<>>
    /\ running = None
    /\ requests = 0

\* One call on the Deck: the deck after it, the cards it gave back (kept by
\* the caller, forgotten at a reset) and whether it raised.
DeckCall(op, count, d) ==
    /\ deck' = d.deck
    /\ returned' = returned \o d.out
    /\ result' = [op |-> op, status |-> IF d.ok THEN "ok" ELSE "ValueError",
                  ret |-> "None", value |-> count]
    /\ UNCHANGED <<config, rake_config, table, hand, current_hand, event_sequence,
                   total_rake_collected, bought_in, table_ops, text, card,
                   handlers, running, requests>>

DeckReset ==
    \E shuffled \in Shuffles :
        /\ deck' = NewDeck(shuffled)
        /\ returned' = <<>>
        /\ result' = [op |-> "reset", status |-> "ok", ret |-> "None", value |-> 0]
        /\ UNCHANGED <<config, rake_config, table, hand, current_hand, event_sequence,
                       total_rake_collected, bought_in, table_ops, text, card,
                   handlers, running, requests>>

DeckDeal == \E count \in DealCounts : DeckCall("deal", count, deal(deck, count))

DeckBurn == DeckCall("burn", 1, burn(deck))

NextDeck == DeckReset \/ DeckDeal \/ DeckBurn

SpecDeck == InitDeck /\ [][NextDeck]_vars

\* The elements of a sequence, and whether none of them occurs twice.
Range(q) == {q[i] : i \in DOMAIN q}
NoRepeats(q) == \A i, j \in DOMAIN q : q[i] = q[j] => i = j

\* The undealt cards and the dealt set split the 52 cards, and the dealt set
\* is what was returned, each card once.
DeckIsWhole(d, given) ==
    /\ NoRepeats(d.cards) /\ NoRepeats(given)
    /\ Range(d.cards) \cap d.dealt = {}
    /\ Range(d.cards) \cup d.dealt = Range(FullDeck)
    /\ Cardinality(Range(FullDeck)) = 52
    /\ Range(given) = d.dealt

\* C26: deck integrity: after reset() the deck holds 52 pairwise distinct
\* cards; over any sequence of deal and burn calls since the last reset no
\* card is returned twice, and the undealt cards and the dealt set are
\* disjoint with the 52 cards as their union; deal(n) with n greater than the
\* number of cards remaining fails and leaves the deck and the dealt set as
\* they were.
C26_DeckIntegrity ==
    [][/\ DeckIsWhole(deck, returned) /\ DeckIsWhole(deck', returned')
       /\ result'.op = "reset" =>
             Len(deck'.cards) = 52 /\ NoRepeats(deck'.cards) /\ deck'.dealt = {}
       /\ (result'.op \in {"deal", "burn"} /\ result'.value > Len(deck.cards)) =>
             result'.status = "ValueError" /\ deck' = deck /\ returned' = returned
       /\ (result'.op \in {"deal", "burn"} /\ result'.value <= Len(deck.cards)) =>
             /\ result'.status = "ok"
             /\ Range(deck'.cards) \subseteq Range(deck.cards)
             /\ deck'.dealt = deck.dealt \cup (Range(deck.cards) \ Range(deck'.cards))
             /\ returned' = returned \o SubSeq(deck.cards, 1, Len(deck.cards) - Len(deck'.cards))]_vars

\* A deal refused for want of cards, on a deck that has dealt and burnt some
\* and still holds some.
C26_Witness ==
    /\ result.op = "deal" /\ result.status = "ValueError"
    /\ deck.cards # <<>> /\ Cardinality(deck.dealt) >= 27
    /\ Len(returned) = Cardinality(deck.dealt)

\* The hole cards of the seats, seat after seat, as one sequence.
RECURSIVE AllHoleCards(_, _)
AllHoleCards(t, seats) ==
    IF seats = <<>> THEN <<>>
    ELSE t.seats[Head(seats)].hole_cards \o AllHoleCards(t, Tail(seats))

\* The seats dealt in hold their two cards, the other seats none, and no card
\* is at once in two of: a seat's hole cards, the board, the rest of the deck.
HoleCardsInHand ==
    /\ \A n \in DOMAIN table.seats :
          IF n \in DOMAIN hand.hole_cards
          THEN /\ Len(table.seats[n].hole_cards) = 2
               /\ table.seats[n].hole_cards = hand.hole_cards[n]
          ELSE table.seats[n].hole_cards = <<>>
    /\ LET cards == AllHoleCards(table, sorted(DOMAIN table.seats))
                        \o hand.community_cards \o hand.deck.cards
       IN  Cardinality(Range(cards)) = Len(cards)

\* C27: hole cards: during every hand each seat that was ready at start_hand
\* holds exactly two hole cards, the seats not dealt in hold none, and the
\* hole cards, the community cards and the cards left in the hand's deck are
\* pairwise distinct; when the hand completes the hole cards of every seat
\* are cleared.
C27_HoleCards ==
    [][/\ current_hand' => HoleCardsInHand'
       /\ (current_hand /\ ~current_hand') =>
             \A n \in DOMAIN table'.seats : table'.seats[n].hole_cards = <<>>]_vars

(***************************************************************************)
(* Card on its own: a str is parsed, a Card is written out.                *)
(***************************************************************************)
MaxTextLen == 2       \* the longest str given to Card.from_string

\* The characters explored: the rank and suit characters, the same letters in
\* the other case, and three characters that are neither.
Chars ==
    Range(RANK_CHARS) \cup Range(SUIT_CHARS)
    \cup {Letters[i][1] : i \in DOMAIN Letters} \cup {Letters[i][2] : i \in DOMAIN Letters}
    \cup {"1"}
Texts == UNION {[1..n -> Chars] : n \in 0..MaxTextLen}

\* Either a str to parse or a Card to write out.
InitCard ==
    /\ EngineInit(TestConfig, NoRake)
    /\ deck = NewDeck(<<>>)
    /\ returned = <<>>
    /\ \/ text \in Texts /\ card = NoCard
       \/ text = <<>> /\ card \in Range(FullDeck)
    /\ handlers = <<>>
    /\ running = None
    /\ requests = 0

\* card = Card.from_string(text)
FromString ==
    /\ result.op # "from_string"
    /\ LET o == from_string(text)
       IN  /\ card' = o.card
           /\ result' = [op |-> "from_string", status |-> IF o.ok THEN "ok" ELSE "ValueError",
                         ret |-> "None", value |-> 0]
    /\ UNCHANGED <<config, rake_config, table, hand, current_hand, event_sequence,
                   total_rake_collected, bought_in, table_ops, deck, returned, text,
                   handlers, running, requests>>

\* text = str(card)
Str ==
    /\ card # NoCard
    /\ result.op # "str"
    /\ text' = str(card)
    /\ result' = [op |-> "str", status |-> "ok", ret |-> "None", value |-> 0]
    /\ UNCHANGED <<config, rake_config, table, hand, current_hand, event_sequence,
                   total_rake_collected, bought_in, table_ops, deck, returned, card,
                   handlers, running, requests>>

NextCard == FromString \/ Str

SpecCard == InitCard /\ [][NextCard]_vars

\* A rank character followed by a suit character.
RankThenSuit(s) ==
    Len(s) = 2 /\ s[1] \in Range(RANK_CHARS) /\ s[2] \in Range(SUIT_CHARS)

\* C28: the text encoding of a card is a lossless bijection: parsing the text
\* of any of the 52 cards gives that card back; writing out the card parsed
\* from an accepted two-character string gives that string back; and
\* from_string raises on every string that is not a rank character from
\* 23456789TJQKA followed by a suit character from cdhs.
C28_CardEncoding ==
    [][/\ result'.op = "str" =>
             from_string(text').ok /\ from_string(text').card = card
       /\ (result'.op = "from_string" /\ result'.status = "ok" /\ Len(text) = 2) =>
             str(card') = text
       /\ (result'.op = "from_string" /\ ~RankThenSuit(text)) =>
             result'.status = "ValueError"]_vars

(***************************************************************************)
(* The API in front of one table's engine: api/routes/poker.py and         *)
(* api/websocket.  Every handler is a coroutine on one event loop: it runs *)
(* statement after statement and lets another handler run only where it    *)
(* awaits.  The database, the wallet and the sockets are left out; what is *)
(* kept of a handler is its awaits and its statements that use the engine. *)
(***************************************************************************)
NumHandlers == 2      \* requests handled at the same time
MaxRequests == 3      \* requests received in one run

Handlers == 1..NumHandlers
Players == {1, 2}
Idle == [kind |-> "idle", pc |-> 0, agent |-> None, seat |-> 0, action |-> "FOLD",
         inside |-> FALSE]

\* Statements: an await, a call of an engine method (on_error says what the
\* handler does with the exception: "return" ends the request, "pass" goes
\* on), and a test of the engine's state that goes on when it holds and
\* jumps to orelse (0: the handler returns or raises) when it does not.
Await == [stmt |-> "await", op |-> "", arg |-> 0, on_error |-> "", orelse |-> 0]
Call(op, arg, on_error) ==
    [stmt |-> "call", op |-> op, arg |-> arg, on_error |-> on_error, orelse |-> 0]
Test(op, orelse) == [stmt |-> "test", op |-> op, arg |-> 0, on_error |-> "", orelse |-> orelse]

\* ConnectionManager.send_game_state with agents 1 and 2 connected to the
\* table: for each agent the state is taken, then sent.
send_game_state ==
    <<Call("get_state", 1, "return"), Await, Call("get_state", 2, "return"), Await>>

\* join_table: the await of the table query, "if existing_seat: raise" on the
\* rows the query returned, the awaits of get_balance and debit,
\* engine.seat_player, the awaits of commit and broadcast, "if
\* engine.can_start_hand(): engine.start_hand()", send_game_state.
join_table ==
    <<Await, Test("not_seated", 0), Await, Call("seat_player", 0, "return"), Await,
      Test("can_start_hand", 0), Call("start_hand", 0, "return")>> \o send_game_state

\* leave_table: the await of the query, the refusal during a hand,
\* engine.remove_player inside try / except ValueError: pass, the awaits of
\* credit, commit and broadcast.
leave_table ==
    <<Await, Test("not_in_hand", 0), Call("remove_player", 0, "pass"), Await>>

\* take_action: the await of the query, engine.process_action, the await of
\* the seats query, "if engine.current_hand:" with the await of the hand
\* query and the statements that read engine.current_hand.hand_id or .pot,
\* the await of commit, send_game_state, "if engine.can_start_hand():
\* engine.start_hand()", send_game_state.
take_action ==
    <<Await, Call("process_action", 0, "return"), Await,
      Test("current_hand", 7), Await, Test("current_hand", 0), Await>>
    \o send_game_state
    \o <<Test("can_start_hand", 0), Call("start_hand", 0, "return")>>
    \o send_game_state

\* websocket_endpoint and WebSocketHandler.handle_message, "action": the await
\* of receive_text, engine.process_action, send_game_state, "if
\* engine.can_start_hand(): engine.start_hand()", send_game_state.
handle_message ==
    <<Await, Call("process_action", 0, "return")>>
    \o send_game_state
    \o <<Test("can_start_hand", 0), Call("start_hand", 0, "return")>>
    \o send_game_state

Kinds == {"join_table", "leave_table", "take_action", "handle_message"}
Program(kind) ==
    CASE kind = "join_table" -> join_table
      [] kind = "leave_table" -> leave_table
      [] kind = "take_action" -> take_action
      [] kind = "handle_message" -> handle_message
      [] OTHER -> <<>>

\* A statement at which any handler may run next.
awaits_anywhere(s) == TRUE

\* The statements at which the coroutine is suspended: the engine's methods
\* are plain functions and hold no await.
awaits(s) == s.stmt = "await"

\* The statement handler h is at.
Stmt(h) == Program(handlers[h].kind)[handlers[h].pc]

\* Handler h goes to statement next (0 or past the end: it is done), having
\* run statement s.
Goes(h, s, next) ==
    IF next = 0 \/ next > Len(Program(handlers[h].kind))
    THEN /\ handlers' = [handlers EXCEPT ![h] = Idle]
         /\ running' = None
    ELSE /\ handlers' = [handlers EXCEPT ![h].pc = next, ![h].inside = FALSE]
         /\ running' = IF awaits(s) THEN None ELSE h

ServerUnchanged == UNCHANGED <<deck, returned, text, card, requests, table_ops>>
EngineUnchanged ==
    UNCHANGED <<config, rake_config, table, hand, current_hand, event_sequence,
                total_rake_collected, result, bought_in>>

InitServer ==
    /\ EngineInit(DuelConfig, SmallRake)
    /\ deck = NewDeck(<<>>)
    /\ returned = <<>>
    /\ text = <<>>
    /\ card = NoCard
    /\ handlers = [h \in Handlers |-> Idle]
    /\ running = None
    /\ requests = 0

\* A request arrives and its handler is created; it runs when the loop is
\* free.
Receive ==
    /\ requests < MaxRequests
    /\ running = None
    /\ \E h \in Handlers, kind \in Kinds, agent \in Players :
         \E seat \in (IF kind = "join_table" THEN 0..(config.max_players - 1) ELSE {0}),
            action \in (IF kind \in {"take_action", "handle_message"}
                        THEN {"FOLD", "CHECK", "CALL", "ALL_IN"} ELSE {"FOLD"}) :
            /\ handlers[h] = Idle
            /\ \A g \in Handlers : g < h => handlers[g] # Idle
            /\ handlers' = [handlers EXCEPT ![h] =
                               [kind |-> kind, pc |-> 1, agent |-> agent, seat |-> seat,
                                action |-> action, inside |-> FALSE]]
    /\ requests' = requests + 1
    /\ UNCHANGED <<running, deck, returned, text, card, table_ops>>
    /\ EngineUnchanged

\* The handler the loop runs, or any handler when the loop is free.
Runs(h) == handlers[h] # Idle /\ running \in {None, h}

\* "await ...": the handler is suspended and resumed later.
DoAwait ==
    \E h \in Handlers :
        /\ Runs(h) /\ Stmt(h).stmt = "await"
        /\ Goes(h, Stmt(h), handlers[h].pc + 1)
        /\ EngineUnchanged /\ ServerUnchanged

\* What the tests read of the engine.  The seat rows join_table reads are
\* written together with engine.seat_player and committed at the next await:
\* a query sees a seat taken no earlier than the engine has it.
Holds(h, op) ==
    CASE op = "can_start_hand" -> can_start_hand(Engine)
      [] op = "not_seated" -> get_seat_by_agent(table, handlers[h].agent) = -1
      [] op = "current_hand" -> current_hand
      [] op = "not_in_hand" ->
            LET n == get_seat_by_agent(table, handlers[h].agent)
            IN  ~(current_hand /\ n # -1 /\ n \in DOMAIN hand.hole_cards)

DoTest ==
    \E h \in Handlers :
        /\ Runs(h) /\ Stmt(h).stmt = "test"
        /\ Goes(h, Stmt(h), IF Holds(h, Stmt(h).op) THEN handlers[h].pc + 1
                                                     ELSE Stmt(h).orelse)
        /\ EngineUnchanged /\ ServerUnchanged

\* The handler enters an engine method.
Enter ==
    \E h \in Handlers :
        /\ Runs(h) /\ Stmt(h).stmt = "call" /\ ~handlers[h].inside
        /\ handlers' = [handlers EXCEPT ![h].inside = TRUE]
        /\ running' = IF awaits(Stmt(h)) THEN None ELSE h
        /\ EngineUnchanged /\ ServerUnchanged

\* What the engine method gives for the request of handler h.
Outcomes(h) ==
    LET r == handlers[h]
        op == Stmt(h).op
    IN  CASE op = "seat_player" ->
                {seat_player(Engine, r.agent, r.seat, config.max_buy_in)}
          [] op = "remove_player" -> {remove_player(Engine, r.agent)}
          [] op = "start_hand" -> {start_hand(Engine, shuffled) : shuffled \in Shuffles}
          [] op = "process_action" ->
                {process_action(Engine, r.agent, r.action, 0, scores) :
                    scores \in ScoresFor(r.agent, r.action, 0)}
          [] op = "get_state" ->
                {Outcome(Engine, "ok", "None", get_state(Engine, Stmt(h).arg).table.hand_number)}

\* The engine method returns or raises.
Exit ==
    \E h \in Handlers :
        /\ Runs(h) /\ Stmt(h).stmt = "call" /\ handlers[h].inside
        /\ \E o \in Outcomes(h) :
            /\ EngineBecomes(Stmt(h).op, o)
            /\ bought_in' = CASE Stmt(h).op = "seat_player" /\ o.status = "ok" ->
                                    bought_in + config.max_buy_in
                               [] Stmt(h).op = "remove_player" -> bought_in - o.value
                               [] OTHER -> bought_in
            /\ Goes(h, Stmt(h), IF o.status = "ok" \/ Stmt(h).on_error = "pass"
                                 THEN handlers[h].pc + 1 ELSE 0)
        /\ ServerUnchanged

NextServer == Receive \/ DoAwait \/ DoTest \/ Enter \/ Exit

SpecServer == InitServer /\ [][NextServer]_vars

\* The handlers inside an engine method.
InsideEngine == {h \in DOMAIN handlers : handlers[h].inside}

\* C30: single-writer serialization: however the request handlers of one
\* table (HTTP join, leave and action, WebSocket action) interleave at their
\* awaits, every engine operation, seat_player, remove_player, start_hand,
\* process_action and the get_state snapshot alike, runs from its call to its
\* return with no other handler running and no other operation on the engine
\* begun, and start_hand is never called while a hand is in progress.
C30_SingleWriter ==
    [][/\ Cardinality(InsideEngine') <= 1
       /\ \A h \in InsideEngine :
             /\ handlers'[h] # handlers[h]
             /\ \A g \in DOMAIN handlers : g # h => handlers'[g] = handlers[g]
       /\ InsideEngine = {} =>
             /\ table' = table /\ hand' = hand /\ current_hand' = current_hand
             /\ event_sequence' = event_sequence
       /\ \A h \in InsideEngine' \ InsideEngine :
             Stmt(h).op = "start_hand" => ~current_hand]_vars

\* An action is being processed in a hand while the other handler is in the
\* middle of its own request.
C30_Witness ==
    \E h, g \in DOMAIN handlers :
        /\ h # g /\ current_hand
        /\ handlers[h].inside /\ Stmt(h).op = "process_action"
        /\ handlers[g].pc > 1 /\ ~handlers[g].inside

\* Some agent is offered an action by PokerEngine.get_valid_actions.
SomeoneCanAct(e) == \E a \in Agents : engine_get_valid_actions(e, a) # {}

\* C31: hand termination: a hand in progress always has an agent whose list
\* of valid actions is not empty, and no accepted action raises an internal
\* error, so that a hand whose player to act always acts comes to its end.
C31_HandTermination ==
    [][/\ current_hand' => SomeoneCanAct(Engine')
       /\ result'.op = "process_action" => result'.status \in {"ok", "ValueError"}]_vars

\* The agents PokerEngine.get_valid_actions offers an action to.
AgentsToAct == {a \in Agents : engine_get_valid_actions(Engine, a) # {}}

\* C32: turn validity: while a hand is in progress action_on is the seat of
\* a player dealt into the hand who has neither folded nor gone all-in, and
\* get_valid_actions is non-empty for the agent at that seat and for no
\* other agent.
C32_TurnValidity ==
    current_hand =>
        LET b == hand.betting
            n == b.action_on
        IN  /\ n \in DOMAIN b.players /\ n \in DOMAIN hand.hole_cards
            /\ ~b.players[n].is_folded /\ ~b.players[n].is_all_in
            /\ AgentsToAct = {table.seats[n].agent_id}

\* What the claim on seating during a hand compares of an action's outcome:
\* whether it was accepted, and the phase, pot, next seat to act and the
\* stacks of the seats of `seats` afterwards.
ActionOutcome(o, seats) ==
    [status |-> o.status, ret |-> o.ret, cur |-> o.e.current_hand,
     phase |-> o.e.hand.phase, pot |-> o.e.hand.betting.pot,
     action_on |-> o.e.hand.betting.action_on,
     stacks |-> [n \in seats |-> o.e.table.seats[n].stack]]

\* C33: seating during a hand leaves the hand untouched: a seat_player that
\* succeeds while a hand is in progress gives the new seat no hole cards and
\* no betting state, does not make it action_on, and every action that would
\* have been accepted without the new player is still accepted and gives the
\* same phase, pot, stacks and next action_on.
C33_SeatingFrame ==
    current_hand =>
        \A agent_id \in Agents, seat_number \in SeatNumbers :
            \A buy_in \in {config.min_buy_in, config.max_buy_in} :
                LET s == seat_player(Engine, agent_id, seat_number, buy_in)
                    others == SeatNumbers \ {seat_number}
                IN  (s.status = "ok" /\ s.ret = "True") =>
                        /\ s.e.hand = hand
                        /\ seat_number \notin DOMAIN s.e.hand.hole_cards
                        /\ seat_number \notin DOMAIN s.e.hand.betting.players
                        /\ s.e.hand.betting.action_on # seat_number
                        /\ \A a \in Agents, action_type \in ActionTypes :
                            \A amount \in (IF action_type \in {"BET", "RAISE"}
                                           THEN AmountInputs ELSE {0}) :
                                LET without == process_action(Engine, a, action_type,
                                                              amount, DefaultScores)
                                    with == process_action(s.e, a, action_type,
                                                           amount, DefaultScores)
                                IN  (without.status = "ok" /\ without.ret = "True") =>
                                        ActionOutcome(with, others)
                                            = ActionOutcome(without, others)

\* C34: all-in marking: while a hand is in progress every player of the hand
\* who has not folded and whose stack is 0 is marked is_all_in, a player whose
\* whole stack was taken by a blind included.
C34_AllInMarking ==
    current_hand =>
        \A n \in DOMAIN hand.betting.players :
            LET p == hand.betting.players[n]
            IN  (~p.is_folded /\ p.stack = 0) => p.is_all_in

\* C35: stack synchronisation: between engine operations, while a hand is in
\* progress, the table seat's stack of every seat dealt into the hand equals
\* the stack of that player's PlayerBettingState.
C35_StackSync ==
    current_hand =>
        \A n \in DOMAIN hand.betting.players :
            table.seats[n].stack = hand.betting.players[n].stack

\* C36: pot agreement: throughout a hand HandState.pot, the value get_state
\* reports as the hand's pot, equals BettingState.pot, the chips wagered in
\* the hand so far.
C36_PotAgreement ==
    current_hand => hand.pot = hand.betting.pot

\* C37: the current bet is the maximum bet: while a hand is in progress
\* current_bet equals the largest bet_this_round among the players of the
\* hand, so no player's bet_this_round exceeds it and the amount to call is
\* never negative.
C37_CurrentBetIsMax ==
    current_hand =>
        LET b == hand.betting
        IN  /\ \A n \in DOMAIN b.players : b.players[n].bet_this_round <= b.current_bet
            /\ \E n \in DOMAIN b.players : b.players[n].bet_this_round = b.current_bet

\* add_chips takes any integer: the amounts offered with either sign.
SignedAmounts == {-MaxAddChips, MaxAddChips}

AddAnyChips ==
    \E agent_id \in Callers, amount \in SignedAmounts :
        \E o \in {add_chips(Engine, agent_id, amount)} :
            /\ Becomes("add_chips", o)
            /\ TableOp
            /\ bought_in' = bought_in + amount

NextAnyAmount == SeatPlayer \/ RemovePlayer \/ AddAnyChips \/ StartHand \/ ProcessAction

SpecAnyAmount == InitWith(DuelConfig, SmallRake) /\ [][NextAnyAmount]_vars

\* C38: non-negative chips: every seat stack, every bet_this_round and
\* total_bet_this_hand, the pot and total_rake_collected are >= 0, and
\* min_raise >= big_blind throughout every hand.
C38_NonNegativeChips ==
    /\ \A n \in SeatNumbers : table.seats[n].stack >= 0
    /\ total_rake_collected >= 0
    /\ current_hand =>
        LET b == hand.betting
        IN  /\ b.pot >= 0 /\ hand.pot >= 0 /\ hand.rake_collected >= 0
            /\ b.min_raise >= config.big_blind
            /\ \A n \in DOMAIN b.players :
                /\ b.players[n].stack >= 0
                /\ b.players[n].bet_this_round >= 0
                /\ b.players[n].total_bet_this_hand >= 0

\* C39: hand-end event: the event log of every completed hand ends with a
\* hand_end event, logged after the hand_complete or showdown event.
C39_HandEndEvent ==
    hand.phase = "COMPLETE" =>
        /\ hand.events # <<>>
        /\ hand.events[Len(hand.events)].type = "hand_end"
        /\ \E i \in 1..(Len(hand.events) - 1) :
            hand.events[i].type \in {"hand_complete", "showdown"}

\* The seats agent_id occupies at the table.
SeatsOf(agent_id) == {n \in SeatNumbers : table.seats[n].agent_id = agent_id}

\* C40: one seat per agent: each agent occupies at most one seat of the
\* table's engine, also when the same agent's join requests for different
\* seats are handled at the same time.
C40_OneSeatPerAgent ==
    \A agent_id \in Agents : Cardinality(SeatsOf(agent_id)) <= 1

====
